---- MODULE Spec2Model ----
(***************************************************************************)
(* Verification model of condor-forecast-bot: the artifact resolution,     *)
(* normalization and alerting pipeline.  The repository holds several      *)
(* versions of the scraper; each is modelled under its own variant name:   *)
(*   "lookahead" src/scrape.js 1-202       (time-lookahead main)           *)
(*   "rowpick"   src/scrape.js 204-459     (findTargetRowIndex main)       *)
(*   "first24"   src/scrape.js 802-1151    (parseCsv / normalizeRows main) *)
(*   "first48"   src/unnamed/part_000 1-241   (parseCsvFirst48 main)       *)
(*   "newest"    src/unnamed/part_000 244-459 (findNewestRowIndex main)    *)
(*   "pickrow"   src/unnamed/part_001         (pickRowIndex main)          *)
(*                                                                         *)
(* Strings are modelled structurally.  A CSV field is a tagged tuple:      *)
(*   <<"e">>          the empty string                                     *)
(*   <<"n", v>>       the decimal numeral of the integer v                 *)
(*   <<"d", y, m, d>> an ISO calendar date  yyyy-mm-dd                     *)
(*   <<"w", s>>       a word (letters), s its spelling                     *)
(*   <<"q", c>>       the field c written between double quotes            *)
(* A line is a sequence of fields (the commas between them are implicit),  *)
(* an artifact is a sequence of lines.  JavaScript numbers are <<"n", v>>  *)
(* and <<"nan">>; undefined/null is <<"null">>.  Time values are in        *)
(* seconds (the code's milliseconds divided by 1000).                      *)
(***************************************************************************)
EXTENDS Integers, Sequences, FiniteSets, TLC

VARIABLES
  variant,  \* the version of the scraper that is deployed
  env,      \* process.env: BYPASS_DEDUPE, FORCE_LAST_ROW, MAX_ROWS, TIMEZONE
  portal,   \* what the portal publishes: the listing rows, the file and its name
  pc,       \* position of the current invocation
  csv,      \* the downloaded text
  parsed,   \* result of the parser
  payload,  \* the payload built for the webhook
  draw,     \* the clock reading and random value of the current invocation
  sink,     \* every request the webhook received, in order
  exit,     \* exit status of the current invocation
  runs,     \* invocations started so far
  pick,     \* result of the row selection
  dl,       \* downloadForecast in its export-button path: the click loop and sniffedPath
  scroll    \* scrollUntilStable: the loop counter and the previous row count

vars == <<variant, env, portal, pc, csv, parsed, payload, draw, sink, exit, runs, pick,
          dl, scroll>>

-----------------------------------------------------------------------------
(* Values *)

Null == <<"null">>
NaN == <<"nan">>
Num(v) == <<"n", v>>
E == <<"e">>
N(v) == <<"n", v>>
D(y, m, d) == <<"d", y, m, d>>
W(s) == <<"w", s>>
Q(c) == <<"q", c>>

IsNum(x) == x[1] = "n"

\* Number.isNaN(x)
IsNaN(x) == x = NaN

\* JavaScript truthiness of a string-or-undefined value: '' and undefined are falsy.
Truthy(c) == c # E /\ c # Null

\* a || b
OrElse(a, b) == IF Truthy(a) THEN a ELSE b

\* a ?? b
Coalesce(a, b) == IF a = Null THEN b ELSE a

\* Number(str): '' is 0, a numeral is its value, anything else is NaN.
Number(c) ==
  CASE c = E -> Num(0)
    [] c[1] = "n" -> Num(c[2])
    [] OTHER -> NaN

\* str.toLowerCase(), on the spellings the model uses.
LowerWord(s) ==
  CASE s = "Date" -> "date"
    [] s = "DATE" -> "date"
    [] s = "HE" -> "he"
    [] s = "He" -> "he"
    [] s = "Forecast" -> "forecast"
    [] s = "FORECAST" -> "forecast"
    [] s = "Value" -> "value"
    [] s = "Node" -> "node"
    [] s = "Timestamp" -> "timestamp"
    [] s = "Time" -> "time"
    [] s = "IntervalStart" -> "intervalstart"
    [] s = "Start" -> "start"
    [] s = "START" -> "start"
    [] s = "Hour" -> "hour"
    [] s = "DATETIME" -> "datetime"
    [] s = "INTERVAL START" -> "interval start"
    [] s = "Price" -> "price"
    [] s = "PRICE" -> "price"
    [] s = "LMP" -> "lmp"
    [] s = "LMP ($/MWh)" -> "lmp ($/mwh)"
    [] s = "lmp ($/MWh)" -> "lmp ($/mwh)"
    [] OTHER -> s

RECURSIVE ToLowerCase(_)
ToLowerCase(c) ==
  CASE c[1] = "w" -> W(LowerWord(c[2]))
    [] c[1] = "q" -> Q(ToLowerCase(c[2]))
    [] OTHER -> c

\* arr[i] with a 0-based index; out of range (or -1) is undefined.
At(arr, i) == IF i >= 0 /\ i < Len(arr) THEN arr[i + 1] ELSE Null

\* arr.indexOf(x): 0-based index of the first occurrence, -1 when absent.
IndexOf(arr, x) ==
  IF \E i \in 1..Len(arr) : arr[i] = x
  THEN (CHOOSE i \in 1..Len(arr) : arr[i] = x /\ \A j \in 1..(i - 1) : arr[j] # x) - 1
  ELSE -1

MapSeq(s, F(_)) == [i \in 1..Len(s) |-> F(s[i])]

Min(a, b) == IF a <= b THEN a ELSE b

-----------------------------------------------------------------------------
(* ECMAScript Date arithmetic (Date.UTC, Date.prototype.toISOString) *)

SecPerDay == 86400

\* DayFromYear(y): day number of 1 January of year y.
DayFromYear(y) ==
  365 * (y - 1970) + ((y - 1969) \div 4) - ((y - 1901) \div 100) + ((y - 1601) \div 400)

DaysInYear(y) == DayFromYear(y + 1) - DayFromYear(y)

\* Days of the year before month mn (0-based) in year y.
DaysBeforeMonth(y, mn) ==
  LET leap == DaysInYear(y) - 365
  IN CASE mn = 0 -> 0
       [] mn = 1 -> 31
       [] mn = 2 -> 59 + leap
       [] mn = 3 -> 90 + leap
       [] mn = 4 -> 120 + leap
       [] mn = 5 -> 151 + leap
       [] mn = 6 -> 181 + leap
       [] mn = 7 -> 212 + leap
       [] mn = 8 -> 243 + leap
       [] mn = 9 -> 273 + leap
       [] mn = 10 -> 304 + leap
       [] mn = 11 -> 334 + leap
       [] OTHER -> 365 + leap

\* MakeDay(year, month, date): month is 0-based and may overflow, date may overflow.
MakeDay(year, month, date) ==
  LET ym == year + (month \div 12)
      mn == month % 12
  IN DayFromYear(ym) + DaysBeforeMonth(ym, mn) + date - 1

\* Date.UTC(Y, M, D, h, mi, s) on numbers that may be NaN.
DateUTC(Y, M, Dt, h, mi, s) ==
  IF \E a \in {Y, M, Dt, h, mi, s} : ~IsNum(a)
  THEN NaN
  ELSE Num(MakeDay(Y[2], M[2], Dt[2]) * SecPerDay + h[2] * 3600 + mi[2] * 60 + s[2])

\* The year containing day number day.
YearFromDay(day) ==
  LET est == 1970 + (day \div 365)
  IN CHOOSE y \in (est - 1)..(est + 1) : DayFromYear(y) <= day /\ day < DayFromYear(y + 1)

\* toISOString of a finite time value: the fields of "YYYY-MM-DDTHH:mm:ssZ".
ToISOFields(t) ==
  LET day == t \div SecPerDay
      sec == t % SecPerDay
      y == YearFromDay(day)
      doy == day - DayFromYear(y)
      mn == CHOOSE m \in 0..11 : DaysBeforeMonth(y, m) <= doy /\ doy < DaysBeforeMonth(y, m + 1)
  IN <<y, mn + 1, doy - DaysBeforeMonth(y, mn) + 1, sec \div 3600, (sec % 3600) \div 60, sec % 60>>

\* a > b in place of a >= b.
JsGe_Strict(a, b) == a[1] = "n" /\ b[1] = "n" /\ a[2] > b[2]

\* a.localeCompare(b) < 0 on two ISO strings of equal shape: lexicographic order.
RECURSIVE LexLess(_, _)
LexLess(a, b) ==
  IF a = <<>> \/ b = <<>> THEN FALSE
  ELSE IF Head(a) # Head(b) THEN Head(a) < Head(b)
  ELSE LexLess(Tail(a), Tail(b))

\* Date.parse(iso) / 1000 of an ISO string given by its fields.
ParseISOFields(f) == MakeDay(f[1], f[2] - 1, f[3]) * SecPerDay + f[4] * 3600 + f[5] * 60 + f[6]

-----------------------------------------------------------------------------
(* Results of a call: a value or a thrown error *)

Ok(v) == [tag |-> "ok", val |-> v]
Throw(e) == [tag |-> "throw", val |-> e]
Skip == [tag |-> "skip", val |-> Null]

-----------------------------------------------------------------------------
(* parseCSV_amil_wvpa, src/scrape.js 40-67 *)

\* raw.split(/\r?\n/).filter(l => l.trim().length > 0)
NonBlankLines(raw) == SelectSeq(raw, LAMBDA l : l # <<E>>)

\* dstr.split('-').map(Number): the first three entries (missing ones are undefined).
SplitDate(c) ==
  CASE c[1] = "d" -> <<Num(c[2]), Num(c[3]), Num(c[4])>>
    [] c[1] = "n" -> <<Num(c[2]), Null, Null>>
    [] OTHER -> <<NaN, Null, Null>>

\* x - 1 and x + k on a number that may be NaN or undefined.
Plus(x, k) == IF IsNum(x) THEN Num(x[2] + k) ELSE NaN

\* Stable insertion of rec into a list sorted by ts_utc (Array.prototype.sort is stable).
RECURSIVE InsertByTs(_, _)
InsertByTs(sorted, rec) ==
  IF sorted = <<>> THEN <<rec>>
  ELSE IF LexLess(rec.ts_utc, Head(sorted).ts_utc) THEN <<rec>> \o sorted
  ELSE <<Head(sorted)>> \o InsertByTs(Tail(sorted), rec)

RECURSIVE SortByTs(_)
SortByTs(s) == IF s = <<>> THEN <<>> ELSE InsertByTs(SortByTs(SubSeq(s, 1, Len(s) - 1)), s[Len(s)])

\* The row loop without the day added for hour-ending 24.
AmilRow_NoCarry(cols, idx) ==
  IF Len(cols) < 3 THEN Skip ELSE
  LET he == Number(At(cols, idx.he))
      ymd == SplitDate(At(cols, idx.date))
      t == DateUTC(ymd[1], Plus(ymd[2], -1), ymd[3], Num(he[2] % 24), Num(0), Num(0))
  IN Ok([ts_utc |-> ToISOFields(t[2]), price |-> Number(At(cols, idx.forecast))])

\* One iteration of the row loop, lines 50-63: Skip (continue), Ok(pushed record), or a throw.
AmilRow(cols, idx) ==
  IF Len(cols) < 3 THEN Skip ELSE
  LET dstr == OrElse(At(cols, idx.date), E)
      heStr == OrElse(At(cols, idx.he), E)
      priceStr == OrElse(At(cols, idx.forecast), OrElse(At(cols, idx.value), E))
  IN IF ~Truthy(dstr) \/ ~Truthy(heStr) \/ ~Truthy(priceStr) THEN Skip ELSE
     LET he == Number(heStr)
         price == Number(priceStr)
     IN IF IsNaN(he) \/ IsNaN(price) THEN Skip ELSE
        LET ymd == SplitDate(dstr)
            hrEnd == he[2] % 24
            addDays == IF he[2] = 24 THEN 1 ELSE 0
            t == DateUTC(ymd[1], Plus(ymd[2], -1), Plus(ymd[3], addDays), Num(hrEnd), Num(0), Num(0))
        IN IF IsNaN(t) THEN Throw(<<"RangeError: Invalid time value">>)
           ELSE Ok([ts_utc |-> ToISOFields(t[2]), price |-> price])

RECURSIVE AmilRows(_, _, _)
AmilRows(lines, i, idx) ==
  IF i > Len(lines) THEN Ok(<<>>)
  ELSE LET r == AmilRow(lines[i], idx)
           rest == AmilRows(lines, i + 1, idx)
       IN IF r.tag = "throw" THEN r
          ELSE IF rest.tag = "throw" THEN rest
          ELSE IF r.tag = "skip" THEN rest
          ELSE Ok(<<r.val>> \o rest.val)

ParseCSV_amil_wvpa(raw) ==
  LET lines == NonBlankLines(raw)
  IN IF Len(lines) = 0 THEN Throw(<<"TypeError: Cannot read properties of undefined">>) ELSE
     LET header == MapSeq(lines[1], ToLowerCase)
         idx == [date |-> IndexOf(header, W("date")), he |-> IndexOf(header, W("he")),
                 forecast |-> IndexOf(header, W("forecast")), value |-> IndexOf(header, W("value"))]
     IN IF idx.date = -1 \/ idx.he = -1 \/ (idx.forecast = -1 /\ idx.value = -1)
        THEN Throw(<<"CSV schema not recognized. Headers:", header>>)
        ELSE LET out == AmilRows(lines, 2, idx)
             IN IF out.tag = "throw" THEN out ELSE Ok(SortByTs(out.val))

-----------------------------------------------------------------------------
(* parseExcelFlexible, src/scrape.js 69-84.  A sheet is its rows: the first *)
(* the header labels, the others the data cells.  A cell is <<"t", s>> (a   *)
(* date cell, s its time value in seconds), a numeral, a word, or Null (an  *)
(* empty cell: sheet_to_json fills it with defval null).                   *)

T(sec) == <<"t", sec>>

tsKeys == <<"Timestamp", "Time", "IntervalStart", "Start", "Hour", "DATETIME", "INTERVAL START",
            "ts", "time_utc">>
priceKeys == <<"Price", "LMP", "Value", "PRICE", "LMP ($/MWh)", "forecast">>

\* Object.keys(rows[0]).find(k => keys.map(lower).includes(k.toLowerCase())):
\* the 1-based position of the first such label, 0 when there is none.
FindKey(labels, keys) ==
  LET hit(k) == \E j \in 1..Len(keys) : ToLowerCase(labels[k]) = W(LowerWord(keys[j]))
  IN IF \E k \in 1..Len(labels) : hit(k)
     THEN CHOOSE k \in 1..Len(labels) : hit(k) /\ \A j \in 1..(k - 1) : ~hit(j)
     ELSE 0

\* (t instanceof Date) ? t : new Date(t), as a time value: new Date(null) is
\* the epoch, a string that is no date is an invalid Date (NaN).
CellTime(t) ==
  CASE t = Null -> Num(0)
    [] t[1] = "t" -> Num(t[2])
    [] OTHER -> NaN

\* Number(r[pKey]): Number(null) is 0.
CellNumber(c) == IF c = Null THEN Num(0) ELSE Number(c)

\* The callback of rows.map, line 79-83: the record, or the RangeError of
\* toISOString on an invalid Date.  The instant is cut to the hour.
ExcelRow(r, tsKey, pKey) ==
  LET d == CellTime(r[tsKey])
  IN IF IsNaN(d) THEN Throw(<<"RangeError: Invalid time value">>)
     ELSE Ok([ts_utc |-> ToISOFields((d[2] \div 3600) * 3600), price |-> CellNumber(r[pKey])])

ParseExcelFlexible(sheet) ==
  LET rows == IF Len(sheet) = 0 THEN <<>> ELSE Tail(sheet)
  IN IF Len(rows) = 0 THEN Throw(<<"Excel schema not recognized.">>) ELSE
     LET tsKey == FindKey(sheet[1], tsKeys)
         pKey == FindKey(sheet[1], priceKeys)
     IN IF tsKey = 0 \/ pKey = 0 THEN Throw(<<"Excel schema not recognized.">>) ELSE
        LET mapped == [k \in 1..Len(rows) |-> ExcelRow(rows[k], tsKey, pKey)]
        IN IF \E k \in 1..Len(mapped) : mapped[k].tag = "throw"
           THEN mapped[CHOOSE k \in 1..Len(mapped) :
                         mapped[k].tag = "throw" /\ \A j \in 1..(k - 1) : mapped[j].tag # "throw"]
           ELSE Ok(SelectSeq([k \in 1..Len(mapped) |-> mapped[k].val],
                             LAMBDA x : ~IsNaN(x.price)))

-----------------------------------------------------------------------------
(* splitCsvLine and parseCsvFirst48, src/unnamed/part_000 46-96 *)

\* A quoted field loses its quotes; fields hold no commas, so the field count is kept.
Unquote(c) == IF c[1] = "q" THEN c[2] ELSE c

\* The loop of splitCsvLine with every quote character taken as a toggle.
RECURSIVE SplitFrom_NoDoubled(_, _, _, _, _)
SplitFrom_NoDoubled(line, i, cur, q, out) ==
  IF i > Len(line) THEN Append(out, cur)
  ELSE LET ch == line[i]
       IN IF ch = "\""
          THEN SplitFrom_NoDoubled(line, i + 1, cur, ~q, out)
          ELSE IF ch = "," /\ ~q
          THEN SplitFrom_NoDoubled(line, i + 1, <<>>, q, Append(out, cur))
          ELSE SplitFrom_NoDoubled(line, i + 1, Append(cur, ch), q, out)

\* The loop of splitCsvLine over the characters of a line, from the 1-based
\* position i: src/unnamed/part_000 49-56, src/scrape.js 869-889.
RECURSIVE SplitFrom(_, _, _, _, _)
SplitFrom(line, i, cur, q, out) ==
  IF i > Len(line) THEN Append(out, cur)
  ELSE LET ch == line[i]
       IN IF ch = "\""
          THEN IF q /\ i + 1 <= Len(line) /\ line[i + 1] = "\""
               THEN SplitFrom(line, i + 2, Append(cur, "\""), q, out)
               ELSE SplitFrom(line, i + 1, cur, ~q, out)
          ELSE IF ch = "," /\ ~q
          THEN SplitFrom(line, i + 1, <<>>, q, Append(out, cur))
          ELSE SplitFrom(line, i + 1, Append(cur, ch), q, out)

\* splitCsvLine(line) on a line given character by character.
SplitCsvLineText(line) == SplitFrom(line, 1, <<>>, FALSE, <<>>)

SplitCsvLine(line) == MapSeq(line, Unquote)

\* fc >= threshold on JavaScript numbers (false when either is NaN).
JsGe(a, b) == IsNum(a) /\ IsNum(b) /\ a[2] >= b[2]

\* a > b on JavaScript numbers (false when either is NaN).
JsGt(a, b) == IsNum(a) /\ IsNum(b) /\ a[2] > b[2]

\* One iteration of the row loop, lines 79-92: Skip or the pushed record.
First48Row(line, iDate, iHe, iFc, threshold) ==
  LET cols == SplitCsvLine(line)
      date == Coalesce(At(cols, iDate), E)
      he == Number(Coalesce(At(cols, iHe), E))
      fc == Number(Coalesce(At(cols, iFc), E))
  IN IF ~Truthy(date) \/ IsNaN(he) \/ IsNaN(fc) THEN Skip
     ELSE Ok([date |-> date, he |-> he, hh |-> he[2], forecast |-> fc,
              alert |-> JsGe(fc, Num(threshold))])

RECURSIVE First48Rows(_, _, _, _, _, _, _)
First48Rows(lines, r, take, iDate, iHe, iFc, threshold) ==
  IF r > take THEN <<>>
  ELSE LET x == First48Row(lines[r + 1], iDate, iHe, iFc, threshold)
           rest == First48Rows(lines, r + 1, take, iDate, iHe, iFc, threshold)
       IN IF x.tag = "skip" THEN rest ELSE <<x.val>> \o rest

ParseCsvFirst48(csvText, limit, threshold) ==
  LET lines == NonBlankLines(csvText)
  IN IF Len(lines) < 2 THEN Ok([header |-> <<>>, list |-> <<>>, flaggedCount |-> 0]) ELSE
     LET header == SplitCsvLine(lines[1])
         iDate == IndexOf(header, W("date"))
         iHe == IndexOf(header, W("he"))
         iFc == IndexOf(header, W("forecast"))
     IN IF iDate < 0 \/ iHe < 0 \/ iFc < 0
        THEN Throw(<<"CSV missing columns (need date, he, forecast). Got:", header>>)
        ELSE LET take == Min(limit, Len(lines) - 1)
                 list == First48Rows(lines, 1, take, iDate, iHe, iFc, threshold)
             IN Ok([header |-> header, list |-> list,
                    flaggedCount |-> Len(SelectSeq(list, LAMBDA x : x.alert))])

-----------------------------------------------------------------------------
(* parseCsvText, src/scrape.js 331-355 (the same function in part_000       *)
(* 328-355 and, as parseCsv, in part_001 123-141)                          *)

\* s.trim().replace(/^"|"$/g, "") on every field of line.split(",")
StripQuotes(line) == MapSeq(line, Unquote)

RECURSIVE TextRows(_, _, _, _, _, _, _)
TextRows(lines, i, limit, n, dateIdx, heIdx, forecastIdx) ==
  IF i > limit THEN <<>>
  ELSE LET cols == StripQuotes(lines[i + 1])
           rest == TextRows(lines, i + 1, limit, n, dateIdx, heIdx, forecastIdx)
       IN IF Len(cols) < n THEN rest
          ELSE <<[date |-> At(cols, dateIdx), he |-> Number(At(cols, heIdx)),
                  forecast |-> Number(At(cols, forecastIdx))]>> \o rest

ParseCsvText(csvText, maxRows) ==
  LET lines == NonBlankLines(csvText)
  IN IF Len(lines) = 0 THEN Throw(<<"CSV empty">>) ELSE
     LET header == StripQuotes(lines[1])
         dateIdx == IndexOf(header, W("date"))
         heIdx == IndexOf(header, W("he"))
         forecastIdx == IndexOf(header, W("forecast"))
     IN IF dateIdx < 0 \/ heIdx < 0 \/ forecastIdx < 0
        THEN Throw(<<"CSV header missing required columns. Got:", header>>)
        ELSE LET limit == Min(maxRows, Len(lines) - 1)
             IN Ok([header |-> header,
                    rows |-> TextRows(lines, 1, limit, Len(header), dateIdx, heIdx, forecastIdx)])

-----------------------------------------------------------------------------
(* parseCsv, pickField, normalizeRows, src/scrape.js 894-941 *)

\* parseCsv: header and rows as objects keyed by header label (one value per column).
ParseCsv(text) ==
  LET lines == NonBlankLines(text)
  IN IF Len(lines) = 0 THEN [header |-> <<>>, rows |-> <<>>] ELSE
     LET header == SplitCsvLine(lines[1])
     IN [header |-> header,
         rows |-> [i \in 1..(Len(lines) - 1) |->
                     LET parts == SplitCsvLine(lines[i + 1])
                     IN [c \in 1..Len(header) |-> Coalesce(At(parts, c - 1), E)]]]

\* pickField(obj, headerIdx, name): header labels of the model are distinct, so
\* Object.keys(obj)[i] is header[i].
PickField(obj, header, name) ==
  LET i == IndexOf(MapSeq(header, ToLowerCase), W(name))
  IN IF i < 0 THEN Null ELSE At(obj, i)

\* Number(String(priceS).replace(/,/g, '').trim())
PriceOf(priceS) == Number(priceS)

NormalizeRows(csvp) ==
  LET Norm(r) ==
        LET ts_utc == Coalesce(PickField(r, csvp.header, "ts_utc"),
                               Coalesce(PickField(r, csvp.header, "utc"), E))
            local == Coalesce(PickField(r, csvp.header, "local"),
                              Coalesce(PickField(r, csvp.header, "local_time"), E))
            priceS == Coalesce(PickField(r, csvp.header, "price"),
                               Coalesce(PickField(r, csvp.header, "value"), E))
        IN [ts_utc |-> ts_utc, local |-> local, price |-> PriceOf(priceS)]
      all == MapSeq(csvp.rows, Norm)
  IN SelectSeq(all, LAMBDA x : Truthy(x.ts_utc) /\ IsNum(x.price))

-----------------------------------------------------------------------------
(* Configuration defaults *)

PRICE_THRESHOLD == 80
HOURS_LOOKAHEAD == 6
MAX_ROWS == 48
First24 == 24
TIMEZONE == "America/Chicago"

\* crypto.createHash('sha256').update(x).digest('hex'): collision-free, so a
\* digest is identified with the pair of the algorithm and its input.
Sha256(x) == <<"sha256", x>>

\* toLocalISO(date, tz): the wall-clock rendering of an instant in a zone, kept symbolic.
ToLocalISO(ts, tz) == <<"local", tz, ts>>

Running == -1

-----------------------------------------------------------------------------
(* main of the time-lookahead version, src/scrape.js 147-202 *)

\* The window loop with the end of the window left out.
RECURSIVE WindowRows_OpenEnd(_, _, _, _, _)
WindowRows_OpenEnd(series, now, windowEnd, flaggedOnly, tz) ==
  IF series = <<>> THEN <<>>
  ELSE LET r == Head(series)
           ts == MakeDay(r.ts_utc[1], r.ts_utc[2] - 1, r.ts_utc[3]) * SecPerDay + r.ts_utc[4] * 3600
           rest == WindowRows_OpenEnd(Tail(series), now, windowEnd, flaggedOnly, tz)
       IN IF ts >= now /\ ts < windowEnd /\ (~flaggedOnly \/ r.price[2] >= 80)
          THEN <<[ts_utc |-> r.ts_utc, local |-> <<"local", tz, ts>>, price |-> r.price]>> \o rest
          ELSE rest

\* The window loop with the window test made on the wall clock of the zone
\* (five hours behind UTC in America/Chicago in August).
RECURSIVE WindowRows_LocalClock(_, _, _, _, _)
WindowRows_LocalClock(series, now, windowEnd, flaggedOnly, tz) ==
  IF series = <<>> THEN <<>>
  ELSE LET r == Head(series)
           ts == MakeDay(r.ts_utc[1], r.ts_utc[2] - 1, r.ts_utc[3]) * SecPerDay + r.ts_utc[4] * 3600
           wall == IF tz = "America/Chicago" THEN ts - 5 * 3600 ELSE ts
           rest == WindowRows_LocalClock(Tail(series), now, windowEnd, flaggedOnly, tz)
       IN IF wall >= now /\ wall <= windowEnd /\ (~flaggedOnly \/ r.price[2] >= 80)
          THEN <<[ts_utc |-> r.ts_utc, local |-> <<"local", tz, ts>>, price |-> r.price]>> \o rest
          ELSE rest

\* The window loop with the threshold test outside the window test.
RECURSIVE WindowRows_FlagOutside(_, _, _, _, _)
WindowRows_FlagOutside(series, now, windowEnd, flaggedOnly, tz) ==
  IF series = <<>> THEN <<>>
  ELSE LET r == Head(series)
           ts == MakeDay(r.ts_utc[1], r.ts_utc[2] - 1, r.ts_utc[3]) * SecPerDay + r.ts_utc[4] * 3600
           rest == WindowRows_FlagOutside(Tail(series), now, windowEnd, flaggedOnly, tz)
       IN IF (flaggedOnly /\ r.price[2] >= 80) \/ (~flaggedOnly /\ ts >= now /\ ts <= windowEnd)
          THEN <<[ts_utc |-> r.ts_utc, local |-> <<"local", tz, ts>>, price |-> r.price]>> \o rest
          ELSE rest

\* The loop of lines 170-178; flaggedOnly selects the flagged list.
RECURSIVE WindowRows(_, _, _, _, _)
WindowRows(series, now, windowEnd, flaggedOnly, tz) ==
  IF series = <<>> THEN <<>>
  ELSE LET r == Head(series)
           ts == ParseISOFields(r.ts_utc)
           rest == WindowRows(Tail(series), now, windowEnd, flaggedOnly, tz)
       IN IF ts >= now /\ ts <= windowEnd /\ (~flaggedOnly \/ JsGe(r.price, Num(PRICE_THRESHOLD)))
          THEN <<[ts_utc |-> r.ts_utc, local |-> ToLocalISO(ts, tz), price |-> r.price]>> \o rest
          ELSE rest

\* idempotency_key: `${hash}_amilwvpa_${Date.parse(lastTs)/1000}`, lines 180-183
LookaheadKey(hash, series, now) ==
  LET lastTs == IF Len(series) > 0 THEN ParseISOFields(series[Len(series)].ts_utc) ELSE now
  IN <<hash, "_amilwvpa_", lastTs>>

LookaheadPayload(series, now, hash, fileName, tz) ==
  LET windowEnd == now + HOURS_LOOKAHEAD * 3600
  IN [kind |-> "result",
      idempotency_key |-> LookaheadKey(hash, series, now),
      file_name |-> fileName,
      file_sha256 |-> hash,
      timezone |-> tz,
      generated_at_utc |-> now,
      window_start_utc |-> now,
      window_end_utc |-> windowEnd,
      threshold |-> PRICE_THRESHOLD,
      rows_evaluated |-> Len(series),
      flagged |-> WindowRows(series, now, windowEnd, TRUE, tz),
      raw_intervals |-> WindowRows(series, now, windowEnd, FALSE, tz)]

\* A catch block that posts a body of the normal kind.
ErrorPayload_AsResult(err, fileName, hash) ==
  [kind |-> "result", error |-> [message |-> err, stage |-> "parse|schema"],
   file_name |-> fileName, file_sha256 |-> hash]

\* The body posted from the catch block, lines 158-163.
ErrorPayload(err, fileName, hash) ==
  [kind |-> "error", error |-> [message |-> err, stage |-> "parse|schema"],
   file_name |-> fileName, file_sha256 |-> hash]

-----------------------------------------------------------------------------
(* main of the first-48 version, src/unnamed/part_000 187-241 *)

\* lines 210-213
First48Key(csvText, fileName, bypass, now, rnd) ==
  LET idemBase == IF bypass THEN <<fileName, "|", now, "|", rnd>> ELSE Sha256(csvText)
  IN Sha256(idemBase)

\* The keys of a Map filled row by row with r.date: the distinct dates in the
\* order of their first row.
RECURSIVE DatesInOrder(_)
DatesInOrder(rows) ==
  IF rows = <<>> THEN <<>>
  ELSE LET before == DatesInOrder(SubSeq(rows, 1, Len(rows) - 1))
           d == rows[Len(rows)].date
       IN IF \E k \in 1..Len(before) : before[k] = d THEN before ELSE Append(before, d)

RECURSIVE Concat(_)
Concat(ss) == IF ss = <<>> THEN <<>> ELSE Head(ss) \o Concat(Tail(ss))

\* buildCurtailmentText, src/unnamed/part_000 98-108.  The text is its lines:
\* <<"file", name>>, <<"summary", count>>, <<"date", d>>, and one
\* <<"row", he, forecast, marked>> per row, marked when it carries the alert sign.
BuildCurtailmentText(fileName, analysis) ==
  LET dates == DatesInOrder(analysis.list)
      Group(d) == <<<<"date", d>>>> \o
                  [k \in 1..Len(SelectSeq(analysis.list, LAMBDA r : r.date = d)) |->
                     LET r == SelectSeq(analysis.list, LAMBDA x : x.date = d)[k]
                     IN <<"row", r.he, r.forecast, r.alert>>]
  IN <<<<"file", fileName>>, <<"summary", analysis.flaggedCount>>>> \o
     Concat([k \in 1..Len(dates) |-> Group(dates[k])])

First48Payload(analysis, key, fileName, now) ==
  [kind |-> "result",
   tg_text |-> BuildCurtailmentText(fileName, analysis),
   file_name |-> fileName,
   idempotency_key |-> key,
   threshold |-> PRICE_THRESHOLD,
   generated_at_utc |-> now,
   first48_count |-> Len(analysis.list),
   flagged |-> analysis.flaggedCount,
   rows |-> analysis.list]

-----------------------------------------------------------------------------
(* main of the first-24 version, src/scrape.js 1048-1150 *)

\* A bypass key made of the file name and the time alone.
First24Key_NoRandom(csvText, fileName, bypass, now, rnd) ==
  IF bypass THEN Sha256(<<fileName, "|", now>>) ELSE Sha256(csvText)

\* lines 1102-1106
First24Key(csvText, fileName, bypass, now, rnd) ==
  IF bypass THEN Sha256(<<fileName, "|", now, "|", rnd>>) ELSE Sha256(csvText)

\* arr.slice(0, n)
SliceTo(arr, n) == SubSeq(arr, 1, Min(n, Len(arr)))

First24Payload(normRows, key, csvText, fileName, now) ==
  LET first24Over == SelectSeq(SliceTo(normRows, First24),
                               LAMBDA r : JsGe(r.price, Num(PRICE_THRESHOLD)))
  IN [kind |-> "result",
      idempotency_key |-> key,
      file_name |-> fileName,
      file_sha256 |-> Sha256(csvText),
      generated_at_utc |-> now,
      window_start_utc |-> normRows[1].ts_utc,
      window_end_utc |-> normRows[Len(normRows)].ts_utc,
      threshold |-> PRICE_THRESHOLD,
      rows_evaluated |-> Len(normRows),
      raw_intervals |-> normRows,
      first24_count |-> Len(first24Over),
      flagged |-> first24Over]

-----------------------------------------------------------------------------
(* main of the row-picking versions, src/scrape.js 391-454 *)

\* hits24Count of buildMessage, lines 359-360
Hits24(rows) == SelectSeq(SliceTo(rows, First24), LAMBDA r : JsGt(r.forecast, Num(PRICE_THRESHOLD)))

\* buildMessage, src/scrape.js 357-387: the text (its lines, as in
\* BuildCurtailmentText, each date group closed by <<"blank">>), hits24Count
\* and the flat list of the hits.
BuildMessage(fileName, parsedCsv) ==
  LET hits24 == Hits24(parsedCsv.rows)
      dates == DatesInOrder(parsedCsv.rows)
      Group(d) == <<<<"date", d>>>> \o
                  [k \in 1..Len(SelectSeq(parsedCsv.rows, LAMBDA r : r.date = d)) |->
                     LET r == SelectSeq(parsedCsv.rows, LAMBDA x : x.date = d)[k]
                     IN <<"row", r.he, r.forecast, JsGt(r.forecast, Num(PRICE_THRESHOLD))>>] \o
                  <<<<"blank">>>>
  IN [text |-> <<<<"file", fileName>>, <<"summary", Len(hits24)>>>> \o
               Concat([k \in 1..Len(dates) |-> Group(dates[k])]),
      hits24Count |-> Len(hits24),
      topList |-> [k \in 1..Len(hits24) |-> <<hits24[k].he, hits24[k].forecast>>]]

RowpickPayload(parsedCsv, fileName) ==
  [kind |-> "result",
   notes |-> BuildMessage(fileName, parsedCsv).topList,
   formatted_text |-> BuildMessage(fileName, parsedCsv).text,
   file_name |-> fileName,
   rows_evaluated |-> Len(parsedCsv.rows),
   threshold |-> PRICE_THRESHOLD,
   flagged |-> Len(Hits24(parsedCsv.rows))]

-----------------------------------------------------------------------------
(* Row selection.  The inner text of a listing row is <<"plain">> (no       *)
(* timestamp in it) or <<"ts", shape, a, b, c, HH, MM, SS>>: a timestamp    *)
(* written in one of the shapes "dd-dd-dddd", "dddd-dd-dd", "dd/dd/dddd",   *)
(* with a, b, c its three date numbers in the order written.               *)

\* TS_PATTERNS, src/scrape.js 236-240: each expression matches its own shape only.
TS_PATTERNS ==
  <<[re |-> "dd-dd-dddd", order |-> "DMY"],
    [re |-> "dddd-dd-dd", order |-> "YMD"],
    [re |-> "dd/dd/dddd", order |-> "MDY"]>>

\* text.match(re): the capture groups, or null.
Match(text, re) ==
  IF text[1] = "ts" /\ text[2] = re THEN <<text[3], text[4], text[5], text[6], text[7], text[8]>>
  ELSE Null

\* Days of month mm (1-based) of year yyyy.
DaysInMonth(yyyy, mm) == DaysBeforeMonth(yyyy, mm) - DaysBeforeMonth(yyyy, mm - 1)

\* new Date(`${yyyy}-${mm}-${dd}T${HH}:${MM}:${SS}Z`).getTime(): NaN for an
\* element out of range.
IsoEpoch(yyyy, mm, dd, HH, MM, SS) ==
  IF mm \in 1..12 /\ dd >= 1 /\ dd <= DaysInMonth(yyyy, mm) /\ HH <= 23 /\ MM <= 59 /\ SS <= 59
  THEN Num(MakeDay(yyyy, mm - 1, dd) * SecPerDay + HH * 3600 + MM * 60 + SS)
  ELSE NaN

\* toEpoch(parts, order), src/scrape.js 242-254
ToEpoch(m, order) ==
  CASE order = "DMY" -> IsoEpoch(m[3], m[2], m[1], m[4], m[5], m[6])
    [] order = "YMD" -> IsoEpoch(m[1], m[2], m[3], m[4], m[5], m[6])
    [] OTHER -> IsoEpoch(m[3], m[1], m[2], m[4], m[5], m[6])

\* parseAnyTimestamp(text), src/scrape.js 256-262: the first pattern that matches decides.
RECURSIVE ParseAnyTimestampFrom(_, _, _)
ParseAnyTimestampFrom(text, patterns, k) ==
  IF k > Len(patterns) THEN Null
  ELSE LET m == Match(text, patterns[k].re)
       IN IF m # Null THEN ToEpoch(m, patterns[k].order)
          ELSE ParseAnyTimestampFrom(text, patterns, k + 1)

ParseAnyTimestamp(text) == ParseAnyTimestampFrom(text, TS_PATTERNS, 1)

\* The selection loop, src/scrape.js 305-314: <<bestIdx, bestEpoch>> after rows i..count-1.
\* The selection loop taking every row whose text matched a template, the
\* first of them when none denotes an instant after the best so far.
RECURSIVE BestByTimestamp_AnyMatch(_, _, _, _)
BestByTimestamp_AnyMatch(epochs, i, bestIdx, bestEpoch) ==
  IF i >= Len(epochs) THEN <<bestIdx, bestEpoch>>
  ELSE LET epoch == epochs[i + 1]
       IN IF epoch # Null /\ epoch[1] = "n" /\ epoch[2] > bestEpoch
          THEN BestByTimestamp_AnyMatch(epochs, i + 1, i, epoch[2])
          ELSE IF epoch # Null /\ bestIdx < 0
          THEN BestByTimestamp_AnyMatch(epochs, i + 1, i, bestEpoch)
          ELSE BestByTimestamp_AnyMatch(epochs, i + 1, bestIdx, bestEpoch)

RECURSIVE BestByTimestamp(_, _, _, _)
BestByTimestamp(epochs, i, bestIdx, bestEpoch) ==
  IF i >= Len(epochs) THEN <<bestIdx, bestEpoch>>
  ELSE LET epoch == epochs[i + 1]
       IN IF epoch # Null /\ JsGt(epoch, Num(bestEpoch))
          THEN BestByTimestamp(epochs, i + 1, i, epoch[2])
          ELSE BestByTimestamp(epochs, i + 1, bestIdx, bestEpoch)

\* Selection that answers with the last row whenever a timestamp was found.
FindTargetRowIndex_LastRow(listing, forceLast) ==
  LET count == Len(listing)
      epochs == MapSeq(listing, ParseAnyTimestamp)
      bestIdx == BestByTimestamp(epochs, 0, -1, -1)[1]
  IN IF count = 0
     THEN [tag |-> "throw", val |-> <<"No rows found on portal.">>, warnings |-> <<>>]
     ELSE [tag |-> "ok", index |-> count - 1, count |-> count,
           pickedBy |-> IF forceLast THEN "forced-last" ELSE IF bestIdx < 0 THEN "fallback-last" ELSE "timestamp",
           warnings |-> IF ~forceLast /\ bestIdx < 0 THEN <<"fallback-last">> ELSE <<>>,
           epochs |-> epochs]

\* findTargetRowIndex, src/scrape.js 276-327
FindTargetRowIndex(listing, forceLast) ==
  LET count == Len(listing)
      epochs == MapSeq(listing, ParseAnyTimestamp)
      best == BestByTimestamp(epochs, 0, -1, -1)
      bestIdx == best[1]
  IN IF count = 0
     THEN [tag |-> "throw", val |-> <<"No rows found on portal.">>, warnings |-> <<>>]
     ELSE IF forceLast
     THEN [tag |-> "ok", index |-> count - 1, count |-> count, pickedBy |-> "forced-last",
           warnings |-> <<>>, epochs |-> <<>>]
     ELSE IF bestIdx < 0
     THEN [tag |-> "ok", index |-> count - 1, count |-> count, pickedBy |-> "fallback-last",
           warnings |-> <<"fallback-last">>, epochs |-> epochs]
     ELSE [tag |-> "ok", index |-> bestIdx, count |-> count, pickedBy |-> "timestamp",
           warnings |-> IF bestIdx # count - 1 THEN <<"not-last">> ELSE <<>>,
           epochs |-> epochs]

\* pickRowIndex, src/unnamed/part_001 57-82
PickRowIndex(listing, forceLast) ==
  LET count == Len(listing)
      epochs == MapSeq(listing, ParseAnyTimestamp)
      best == BestByTimestamp(epochs, 0, -1, -1)
      bestIdx == best[1]
  IN IF count = 0
     THEN [tag |-> "throw", val |-> <<"No rows found on portal.">>, warnings |-> <<>>]
     ELSE IF forceLast
     THEN [tag |-> "ok", index |-> count - 1, count |-> count, pickedBy |-> "forced-last",
           warnings |-> <<>>, epochs |-> <<>>]
     ELSE IF bestIdx < 0
     THEN [tag |-> "ok", index |-> count - 1, count |-> count, pickedBy |-> "fallback-last",
           warnings |-> <<"fallback-last">>, epochs |-> epochs]
     ELSE [tag |-> "ok", index |-> bestIdx, count |-> count, pickedBy |-> "timestamp",
           warnings |-> IF bestIdx # count - 1 THEN <<"not-last">> ELSE <<>>,
           epochs |-> epochs]

\* parsePortalTimestamp, src/unnamed/part_000 267-273, on the text the row
\* expression of line 299 extracted (null when it found none: epoch -1, line 309).
ParsePortalTimestamp(text) ==
  LET m == Match(text, "dd-dd-dddd")
  IN IF m = Null THEN Null ELSE IsoEpoch(m[3], m[2], m[1], m[4], m[5], m[6])

\* The selection loop, src/unnamed/part_000 306-314.
RECURSIVE NewestByTimestamp(_, _, _, _)
NewestByTimestamp(epochs, i, bestIdx, bestEpoch) ==
  IF i >= Len(epochs) THEN <<bestIdx, bestEpoch>>
  ELSE LET epoch == IF epochs[i + 1] = Null THEN Num(-1) ELSE epochs[i + 1]
       IN IF JsGt(epoch, Num(bestEpoch))
          THEN NewestByTimestamp(epochs, i + 1, i, epoch[2])
          ELSE NewestByTimestamp(epochs, i + 1, bestIdx, bestEpoch)

\* findNewestRowIndex, src/unnamed/part_000 287-326
FindNewestRowIndex(listing) ==
  LET count == Len(listing)
      epochs == MapSeq(listing, ParsePortalTimestamp)
      best == NewestByTimestamp(epochs, 0, -1, -1)
      bestIdx == best[1]
  IN IF count = 0
     THEN [tag |-> "throw", val |-> <<"No rows found on portal.">>, warnings |-> <<>>]
     ELSE IF bestIdx < 0
     THEN [tag |-> "throw", val |-> <<"Could not parse any timestamps on the page.">>,
           warnings |-> <<>>]
     ELSE [tag |-> "ok", index |-> bestIdx, count |-> count, pickedBy |-> "timestamp",
           warnings |-> IF bestIdx # count - 1 THEN <<"not-last">> ELSE <<>>,
           epochs |-> epochs]

-----------------------------------------------------------------------------
(* Bounds and the inputs drawn *)

MaxRows == 2
MaxListing == 3
MaxRuns == 2
MaxRnd == 2
NowSteps == 2
FirstYear == 2023
NumYears == 1

SeqsUpTo(S, n) == UNION {[1..k -> S] : k \in 0..n}

Headers ==
  { <<W("date"), W("he"), W("forecast")>>,
    <<W("Date"), W("HE"), W("Forecast")>>,
    <<W("date"), W("he"), W("value")>>,
    <<Q(W("date")), Q(W("he")), Q(W("forecast"))>>,
    <<W("date"), W("node"), W("forecast")>>,
    <<W("node"), W("he"), W("forecast")>>,
    <<W("date"), W("he"), W("node")>>,
    <<W("ts_utc"), W("local"), W("price")>> }

DataLines ==
  { <<D(2025, 8, 10), N(24), N(95)>>,
    <<D(2025, 8, 11), N(1), N(60)>>,
    <<D(2025, 8, 10), E, N(95)>>,
    <<D(2025, 8, 10), W("x"), N(95)>>,
    <<D(2025, 8, 10), N(5), E>>,
    <<D(2025, 8, 10), N(5), W("x")>>,
    <<E, N(5), N(95)>>,
    <<W("x"), N(5), N(95)>>,
    <<D(2025, 8, 10), N(5)>>,
    <<D(2025, 8, 10), N(25), N(95)>>,
    <<D(2025, 8, 10), N(0), N(95)>>,
    <<E>> }

Artifacts == {<<>>} \cup {<<h>> \o ls : h \in Headers, ls \in SeqsUpTo(DataLines, MaxRows)}

\* The clock readings drawn: on the hour, from 2025-08-10T23:00:00Z.
\* Row texts of the portal listing.
T_DMY == <<"ts", "dd-dd-dddd", 10, 8, 2025, 9, 0, 0>>
T_YMD == <<"ts", "dddd-dd-dd", 2025, 8, 9, 23, 0, 0>>
T_MDY == <<"ts", "dd/dd/dddd", 8, 10, 2025, 9, 0, 0>>
T_Plain == <<"plain">>
T_Month13 == <<"ts", "dd-dd-dddd", 10, 13, 2025, 9, 0, 0>>
T_1969 == <<"ts", "dd-dd-dddd", 31, 12, 1969, 23, 0, 0>>
T_Later == <<"ts", "dd-dd-dddd", 11, 8, 2025, 0, 0, 0>>

Texts == {T_DMY, T_YMD, T_MDY, T_Plain, T_Month13, T_1969, T_Later}

Listings == SeqsUpTo(Texts, MaxListing)

Nows == {ParseISOFields(<<2025, 8, 10, 23, 0, 0>>) + k * 3600 : k \in 0..NowSteps}

Rnds == 1..MaxRnd

FileName == "AMIL.WVPA_forecast.csv"
XlsxName == "AMIL.WVPA_forecast.xlsx"

\* path.extname(filePath).toLowerCase()
ExtName(name) == IF name = XlsxName THEN ".xlsx" ELSE ".csv"

RunVariants == {"lookahead", "first24", "first48", "rowpick"}
PickVariants == {"rowpick", "newest", "pickrow"}

\* The versions that read BYPASS_DEDUPE, and those that read FORCE_LAST_ROW.
ReadsBypass(v) == v \in {"first24", "first48"}
ReadsForceLast(v) == v \in {"rowpick", "pickrow"}

NoValue == [tag |-> "none", kind |-> "none"]

-----------------------------------------------------------------------------
(* One invocation of the scraper.  Selecting the row and downloading its    *)
(* file is the step Download; the synchronous work between the download and *)
(* the POST is one step per version; the POST is the last step.            *)

InitRun(variants, listings, files) ==
  /\ variant \in variants
  /\ env \in {e \in [BYPASS_DEDUPE : BOOLEAN, FORCE_LAST_ROW : BOOLEAN, MAX_ROWS : {MAX_ROWS},
                        TIMEZONE : {TIMEZONE}] :
                /\ e.BYPASS_DEDUPE => ReadsBypass(variant)
                /\ e.FORCE_LAST_ROW => ReadsForceLast(variant)}
  /\ \E l \in listings, f \in files : portal = [listing |-> l, file |-> f, fileName |-> FileName]
  /\ pc = "start"
  /\ csv = <<>>
  /\ parsed = NoValue
  /\ payload = NoValue
  /\ draw = <<0, 0>>
  /\ sink = <<>>
  /\ exit = Running
  /\ runs = 1
  /\ pick = NoValue
  /\ dl = NoValue
  /\ scroll = NoValue

\* The versions whose main selects the listing row by its timestamp.
PicksRow(v) == v \in PickVariants

\* Row selection at the head of main: src/scrape.js 404, src/unnamed/part_000 403,
\* src/unnamed/part_001 185.  A throw ends the run with status 1.
PickRow ==
  /\ pc = "start"
  /\ PicksRow(variant)
  /\ LET res == CASE variant = "rowpick" -> FindTargetRowIndex(portal.listing, env.FORCE_LAST_ROW)
                  [] variant = "pickrow" -> PickRowIndex(portal.listing, env.FORCE_LAST_ROW)
                  [] OTHER -> FindNewestRowIndex(portal.listing)
     IN /\ pick' = res
        /\ pc' = IF res.tag = "throw" THEN "exited" ELSE "picked"
        /\ exit' = IF res.tag = "throw" THEN 1 ELSE exit
  /\ UNCHANGED <<variant, env, portal, csv, parsed, payload, draw, sink, runs, dl, scroll>>

\* The download resolves with the published file, or rejects: every version
\* then ends with status 1 and posts nothing.
Download ==
  /\ pc = IF PicksRow(variant) THEN "picked" ELSE "start"
  /\ \/ /\ csv' = portal.file
        /\ pc' = "fetched"
        /\ exit' = exit
     \/ /\ csv' = csv
        /\ pc' = "exited"
        /\ exit' = 1
  /\ UNCHANGED <<variant, env, portal, parsed, payload, draw, sink, runs, pick, dl, scroll>>

\* src/scrape.js 151-198
AnalyseLookahead ==
  /\ pc = "fetched"
  /\ variant = "lookahead"
  /\ LET hash == Sha256(csv)
         res == IF ExtName(portal.fileName) = ".csv" THEN ParseCSV_amil_wvpa(csv)
                ELSE ParseExcelFlexible(csv)
     IN \E now \in Nows :
          /\ parsed' = res
          /\ draw' = <<now, 0>>
          /\ IF res.tag = "throw"
             THEN /\ payload' = ErrorPayload(res.val, portal.fileName, hash)
                  /\ pc' = "posterror"
             ELSE /\ payload' = LookaheadPayload(res.val, now, hash, portal.fileName, env.TIMEZONE)
                  /\ pc' = "post"
  /\ UNCHANGED <<variant, env, portal, csv, sink, exit, runs, pick, dl, scroll>>

\* The analysis of the first-48 version without the test for an empty list.
AnalyseFirst48_NoEmptyCheck ==
  /\ pc = "fetched"
  /\ variant = "first48"
  /\ \E now \in Nows, rnd \in Rnds :
       LET res == ParseCsvFirst48(csv, env.MAX_ROWS, PRICE_THRESHOLD)
       IN /\ parsed' = res
          /\ draw' = <<now, IF env.BYPASS_DEDUPE THEN rnd ELSE 0>>
          /\ IF res.tag = "throw"
             THEN /\ payload' = payload /\ pc' = "exited" /\ exit' = 1
             ELSE /\ payload' = First48Payload(res.val,
                                     First48Key(csv, portal.fileName, env.BYPASS_DEDUPE, now, rnd),
                                     portal.fileName, now)
                  /\ pc' = "post"
                  /\ exit' = exit
  /\ UNCHANGED <<variant, env, portal, csv, sink, runs, pick, dl, scroll>>

\* src/unnamed/part_000 201-229
AnalyseFirst48 ==
  /\ pc = "fetched"
  /\ variant = "first48"
  /\ \E now \in Nows, rnd \in Rnds :
       LET res == ParseCsvFirst48(csv, env.MAX_ROWS, PRICE_THRESHOLD)
       IN /\ parsed' = res
          /\ draw' = <<now, IF env.BYPASS_DEDUPE THEN rnd ELSE 0>>
          /\ IF res.tag = "throw"
             THEN /\ payload' = payload /\ pc' = "exited" /\ exit' = 1
             ELSE IF Len(res.val.list) = 0
             THEN /\ payload' = payload /\ pc' = "exited" /\ exit' = 1
             ELSE /\ payload' = First48Payload(res.val,
                                     First48Key(csv, portal.fileName, env.BYPASS_DEDUPE, now, rnd),
                                     portal.fileName, now)
                  /\ pc' = "post"
                  /\ exit' = exit
  /\ UNCHANGED <<variant, env, portal, csv, sink, runs, pick, dl, scroll>>

\* src/scrape.js 1066-1137
AnalyseFirst24 ==
  /\ pc = "fetched"
  /\ variant = "first24"
  /\ \E now \in Nows, rnd \in Rnds :
       LET normRows == NormalizeRows(ParseCsv(csv))
       IN /\ parsed' = Ok(normRows)
          /\ draw' = <<now, IF env.BYPASS_DEDUPE THEN rnd ELSE 0>>
          /\ IF Len(normRows) = 0
             THEN /\ payload' = payload /\ pc' = "exited" /\ exit' = 1
             ELSE /\ payload' = First24Payload(normRows,
                                     First24Key(csv, portal.fileName, env.BYPASS_DEDUPE, now, rnd),
                                     csv, portal.fileName, now)
                  /\ pc' = "post"
                  /\ exit' = exit
  /\ UNCHANGED <<variant, env, portal, csv, sink, runs, pick, dl, scroll>>

\* src/scrape.js 427-442
AnalyseRowpick ==
  /\ pc = "fetched"
  /\ variant = "rowpick"
  /\ LET res == ParseCsvText(csv, env.MAX_ROWS)
     IN /\ parsed' = res
        /\ IF res.tag = "throw"
           THEN /\ payload' = payload /\ pc' = "exited" /\ exit' = 1
           ELSE /\ payload' = RowpickPayload(res.val, portal.fileName)
                /\ pc' = "post"
                /\ exit' = exit
  /\ UNCHANGED <<variant, env, portal, csv, draw, sink, runs, pick, dl, scroll>>

\* Whether the version checks res.ok after the POST (postToMake) or ignores it.
ChecksResponse(v) == v \in {"first24", "first48"}

\* The POST of the result: src/scrape.js 200-201, 445-450, 1140-1142,
\* src/unnamed/part_000 232-233.
Post ==
  /\ pc = "post"
  /\ \E ok \in BOOLEAN :
       /\ sink' = Append(sink, [run |-> runs, payload |-> payload, ok |-> ok, draw |-> draw])
       /\ exit' = IF ChecksResponse(variant) /\ ~ok THEN 1 ELSE 0
  /\ pc' = "exited"
  /\ UNCHANGED <<variant, env, portal, csv, parsed, payload, draw, runs, pick, dl, scroll>>

\* The POST of the error payload and the rethrow, src/scrape.js 157-165.
PostError ==
  /\ pc = "posterror"
  /\ \E ok \in BOOLEAN :
       sink' = Append(sink, [run |-> runs, payload |-> payload, ok |-> ok, draw |-> draw])
  /\ exit' = 1
  /\ pc' = "exited"
  /\ UNCHANGED <<variant, env, portal, csv, parsed, payload, draw, runs, pick, dl, scroll>>

\* The workflow starts the script again: a new process, the same portal.
Reinvoke ==
  /\ pc = "exited"
  /\ runs < MaxRuns
  /\ runs' = runs + 1
  /\ pc' = "start"
  /\ exit' = Running
  /\ csv' = <<>>
  /\ parsed' = NoValue
  /\ payload' = NoValue
  /\ pick' = NoValue
  /\ draw' = <<0, 0>>
  /\ UNCHANGED <<variant, env, portal, sink, dl, scroll>>

Init == InitRun(RunVariants, {<<T_DMY>>}, Artifacts)

Next ==
  \/ PickRow
  \/ Download
  \/ AnalyseLookahead
  \/ AnalyseFirst48
  \/ AnalyseFirst24
  \/ AnalyseRowpick
  \/ Post
  \/ PostError

Spec == Init /\ [][Next]_vars

-----------------------------------------------------------------------------
(* The hour-ending projection on every date: one-row files of the          *)
(* time-lookahead version, one per calendar date and hour-ending.          *)

\* The civil calendar, stated without the Date arithmetic of the program.
IsLeap(y) == (y % 4 = 0 /\ y % 100 # 0) \/ y % 400 = 0
MonthLength(y, m) ==
  IF m = 2 THEN (IF IsLeap(y) THEN 29 ELSE 28)
  ELSE IF m \in {4, 6, 9, 11} THEN 30 ELSE 31
NextDay(y, m, d) ==
  IF d < MonthLength(y, m) THEN <<y, m, d + 1>>
  ELSE IF m < 12 THEN <<y, m + 1, 1>>
  ELSE <<y + 1, 1, 1>>

ProjArtifacts ==
  { << <<W("date"), W("he"), W("forecast")>>, <<D(y, m, d), N(he), N(95)>> >> :
      y \in FirstYear..(FirstYear + NumYears), m \in 1..12, d \in 1..31, he \in 1..24 }

InitProj ==
  /\ InitRun({"lookahead"}, {<<T_DMY>>}, {a \in ProjArtifacts : a[2][1][4] <= MonthLength(a[2][1][2], a[2][1][3])})
  /\ ~env.BYPASS_DEDUPE

NextProj ==
  \/ Download
  \/ AnalyseLookahead

SpecProj == InitProj /\ [][NextProj]_vars

\* The data row of a one-row file once analysed by the time-lookahead version.
ProjRow == csv[2]
ProjAnalysed ==
  /\ variant = "lookahead"
  /\ pc \in {"post", "posterror"}
  /\ Len(csv) = 2
  /\ Len(csv[2]) = 3
  /\ csv[1] = <<W("date"), W("he"), W("forecast")>>
  /\ csv[2][1][1] = "d"
  /\ csv[2][2][1] = "n"
  /\ csv[2][3][1] = "n"
  /\ csv[2][2][2] \in 1..24
  /\ csv[2][1][3] \in 1..12
  /\ csv[2][1][4] \in 1..MonthLength(csv[2][1][2], csv[2][1][3])

-----------------------------------------------------------------------------
(* Row selection over every listing of at most MaxListing rows *)

InitPick ==
  /\ InitRun(PickVariants, Listings, {<< <<W("date"), W("he"), W("forecast")>> >>})
  /\ ~env.BYPASS_DEDUPE

NextPick == PickRow

SpecPick == InitPick /\ [][NextPick]_vars

\* The instant each row text denotes, by the parser of the version running;
\* Null or NaN where that parser finds none.
EpochsOf ==
  IF variant = "newest" THEN MapSeq(portal.listing, ParsePortalTimestamp)
  ELSE MapSeq(portal.listing, ParseAnyTimestamp)

Selected == pc \in {"picked", "exited"} /\ pick # NoValue
ByTimestamp == Selected /\ pick.tag = "ok" /\ pick.pickedBy = "timestamp"
InSeq(x, s) == \E k \in 1..Len(s) : s[k] = x

\* C5: with timestamp parsing on and some row parsed, the selected row has the
\* maximum instant, and among rows sharing that maximum it is the one in the
\* highest listing position.
C5_NewestHighestOnTies ==
  (Selected /\ ~env.FORCE_LAST_ROW /\ \E k \in 1..Len(EpochsOf) : IsNum(EpochsOf[k])) =>
    /\ pick.tag = "ok"
    /\ IsNum(EpochsOf[pick.index + 1])
    /\ \A k \in 1..Len(EpochsOf) :
         IsNum(EpochsOf[k]) =>
           /\ EpochsOf[k][2] <= EpochsOf[pick.index + 1][2]
           /\ EpochsOf[k][2] = EpochsOf[pick.index + 1][2] => k - 1 <= pick.index

\* C6: of the rows "10-08-2025 09:00:00" and "2025-08-09 23:00:00", in either
\* order, both are parsed (2025-08-10T09:00:00Z, 2025-08-09T23:00:00Z) and the
\* first is selected.
C6_MixedTemplates ==
  (Selected /\ ~env.FORCE_LAST_ROW /\ portal.listing \in {<<T_DMY, T_YMD>>, <<T_YMD, T_DMY>>}) =>
    /\ pick.tag = "ok"
    /\ \A k \in 1..2 :
         pick.epochs[k] = IF portal.listing[k] = T_DMY THEN Num(1754816400) ELSE Num(1754780400)
    /\ portal.listing[pick.index + 1] = T_DMY

\* C7: for a non-empty listing in which no row yields a timestamp, selection
\* does not fail: it returns the last row (index count-1) with a warning.
C7_PositionalFallback ==
  (Selected /\ ~env.FORCE_LAST_ROW /\ Len(portal.listing) > 0
     /\ \A k \in 1..Len(EpochsOf) : ~IsNum(EpochsOf[k])) =>
    /\ pick.tag = "ok"
    /\ pick.index = Len(portal.listing) - 1
    /\ InSeq("fallback-last", pick.warnings)

\* C8: when a row is selected by timestamp, the disagreement warning is emitted
\* if and only if the selected row is not the last one (count-1), and the row
\* returned is a row of maximum parsed instant, not the last row in its place.
C8_WarnIffNotLast ==
  ByTimestamp =>
    /\ InSeq("not-last", pick.warnings) <=> pick.index # pick.count - 1
    /\ pick.count = Len(portal.listing)
    /\ pick.index \in 0..(pick.count - 1)
    /\ IsNum(EpochsOf[pick.index + 1])
    /\ \A k \in 1..Len(EpochsOf) :
         IsNum(EpochsOf[k]) => EpochsOf[k][2] <= EpochsOf[pick.index + 1][2]

\* C8 witness: the newest row is first of two; it is returned, with the warning.
C8_Witness_Disagree ==
  /\ ByTimestamp
  /\ portal.listing = <<T_Later, T_DMY>>
  /\ pick.index = 0
  /\ pick.warnings = <<"not-last">>

-----------------------------------------------------------------------------
(* Repeated invocations on an unchanged portal: the idempotency keys *)

KeyVariants == {"lookahead", "first24", "first48"}

KeyArtifacts ==
  { << <<W("date"), W("he"), W("forecast")>> >>,
    << <<W("date"), W("he"), W("forecast")>>, <<D(2025, 8, 10), N(24), N(95)>>,
       <<D(2025, 8, 11), N(1), N(60)>> >>,
    << <<W("ts_utc"), W("local"), W("price")>>, <<D(2025, 8, 10), N(24), N(95)>> >> }

InitKey == InitRun(KeyVariants, {<<T_DMY>>}, KeyArtifacts)

NextKey ==
  \/ Download
  \/ AnalyseLookahead
  \/ AnalyseFirst48
  \/ AnalyseFirst24
  \/ Post
  \/ PostError
  \/ Reinvoke

SpecKey == InitKey /\ [][NextKey]_vars

\* The result payloads delivered so far, in order.
Results == SelectSeq(sink, LAMBDA m : m.payload.kind = "result")

\* C3: with the bypass off, runs that retrieve the same bytes emit the same
\* idempotency_key at whatever times they run, a file of zero rows included.
C3_SameBytesSameKey ==
  ~env.BYPASS_DEDUPE =>
    \A i, j \in 1..Len(Results) :
      Results[i].payload.idempotency_key = Results[j].payload.idempotency_key

\* C4 as stated: with the bypass on, any two invocations emit different keys.
C4_AlwaysDistinct ==
  env.BYPASS_DEDUPE =>
    \A i, j \in 1..Len(Results) :
      i < j => Results[i].payload.idempotency_key # Results[j].payload.idempotency_key

\* C4 amended: with the bypass on, two invocations emit different keys whenever
\* their per-call values (clock reading, random value) are not both equal.
C4_DistinctWhenDrawsDiffer ==
  env.BYPASS_DEDUPE =>
    \A i, j \in 1..Len(Results) :
      (i < j /\ Results[i].draw # Results[j].draw) =>
        Results[i].payload.idempotency_key # Results[j].payload.idempotency_key

\* C4 witness: two bypass runs on the same file at the same clock reading with
\* different random values, and different keys.
C4_Witness_TwoKeys ==
  /\ env.BYPASS_DEDUPE
  /\ Len(Results) = 2
  /\ Results[1].draw[1] = Results[2].draw[1]
  /\ Results[1].draw[2] # Results[2].draw[2]
  /\ Results[1].payload.file_name = Results[2].payload.file_name
  /\ Results[1].payload.idempotency_key # Results[2].payload.idempotency_key

-----------------------------------------------------------------------------
(* One run on every file of the catalogue: parsing and the payload *)

\* The run has parsed the downloaded file.
Analysed == pc \in {"post", "posterror", "exited"} /\ parsed # NoValue

C2Artifact ==
  << <<W("Date"), W("HE"), W("Forecast")>>,
     <<D(2025, 8, 10), N(24), N(95)>>,
     <<D(2025, 8, 11), N(1), N(60)>> >>

\* C2: the file with header Date,HE,Forecast and rows (2025-08-10, 24, 95),
\* (2025-08-11, 1, 60), threshold 80, both rows in the window evaluated: the
\* run reports 2 rows evaluated, 1 flagged, and the alert set is the one row
\* of instant 2025-08-11T00:00Z (hour-ending 24 of 2025-08-10) and price 95.
C2_EndToEndExample ==
  (/\ Analysed
   /\ csv = C2Artifact
   /\ variant \in {"lookahead", "first48"}
   /\ variant = "lookahead" => draw[1] <= 1754870400) =>
    /\ payload.kind = "result"
    /\ IF variant = "lookahead"
       THEN /\ payload.rows_evaluated = 2
            /\ Len(payload.flagged) = 1
            /\ payload.flagged[1].ts_utc = <<2025, 8, 11, 0, 0, 0>>
            /\ payload.flagged[1].price = Num(95)
       ELSE /\ payload.first48_count = 2
            /\ payload.flagged = 1
            /\ LET alerts == SelectSeq(payload.rows, LAMBDA r : r.alert)
               IN /\ Len(alerts) = 1
                  /\ alerts[1].date = D(2025, 8, 10)
                  /\ alerts[1].he = Num(24)
                  /\ alerts[1].forecast = Num(95)

\* The column names of a header line, quotes and letter case aside.
ColumnNames(h) == {ToLowerCase(Unquote(h[k])) : k \in 1..Len(h)}
LacksRequired(h) ==
  \/ W("date") \notin ColumnNames(h)
  \/ W("he") \notin ColumnNames(h)
  \/ (W("forecast") \notin ColumnNames(h) /\ W("value") \notin ColumnNames(h))

\* C9: a file whose header lacks date, or he, or both forecast and value,
\* fails with an error that names the header columns found, and no result
\* rows are produced.
C9_SchemaFailureNamesHeader ==
  (/\ Analysed
   /\ variant \in {"lookahead", "first48"}
   /\ Len(csv) >= 1
   /\ LacksRequired(csv[1])) =>
    /\ parsed.tag = "throw"
    /\ Len(parsed.val) = 2
    /\ parsed.val[2] \in {csv[1], MapSeq(csv[1], ToLowerCase)}
    /\ payload.kind # "result"

\* The rows the rule keeps: three fields, a date that is not empty, a numeric
\* hour-ending and a numeric price.
KeptByRule(line) ==
  /\ Len(line) = 3
  /\ line[1] # E
  /\ line[2][1] = "n"
  /\ line[3][1] = "n"

RowsOut ==
  CASE variant = "lookahead" -> parsed.val
    [] variant = "first48" -> parsed.val.list
    [] OTHER -> parsed.val.rows

\* C10: rows whose hour-ending or price is not numeric (empty included) or
\* whose date is empty are left out, every other row is kept, and no such row
\* aborts the run: parsing succeeds with as many rows as the rule keeps.
\* (Stated for files whose date fields are empty or well-formed dates.)
C10_RowLevelTolerance ==
  (/\ Analysed
   /\ variant \in {"lookahead", "first48", "rowpick"}
   /\ Len(csv) >= 2
   /\ csv[1] = <<W("date"), W("he"), W("forecast")>>
   /\ \A k \in 2..Len(csv) : csv[k][1][1] \in {"d", "e"}) =>
    /\ parsed.tag = "ok"
    /\ Len(RowsOut) = Len(SelectSeq(Tail(csv), KeptByRule))

\* A data line of a date,he,forecast file whose hour-ending is an integer in 1..24.
HourEndingInRange(line) ==
  /\ Len(line) >= 2
  /\ line[2][1] = "n"
  /\ line[2][2] \in 1..24

\* C11: every row admitted into the series has a finite price and an
\* hour-ending that is an integer in 1..24: a row with hour-ending 0 or 25
\* never reaches the series, so the series has no more rows than the file has
\* lines with an hour-ending in 1..24, and every admitted price is a number.
C11_AdmittedRowsInRange ==
  (/\ Analysed
   /\ variant \in {"lookahead", "first48"}
   /\ Len(csv) >= 2
   /\ csv[1] = <<W("date"), W("he"), W("forecast")>>
   /\ parsed.tag = "ok") =>
    /\ Len(RowsOut) <= Len(SelectSeq(Tail(csv), HourEndingInRange))
    /\ \A k \in 1..Len(RowsOut) :
         IsNum(IF variant = "lookahead" THEN RowsOut[k].price ELSE RowsOut[k].forecast)

-----------------------------------------------------------------------------
(* The time-lookahead version on a spreadsheet *)

SheetLabels ==
  { <<W("Start"), W("LMP ($/MWh)")>>,
    <<W("START"), W("lmp ($/MWh)")>>,
    <<W("Node"), W("LMP ($/MWh)")>> }

\* Data rows: 2025-08-11T00:00Z, 2025-08-11T01:00Z, 2025-08-10T23:30Z, an
\* empty and a non-numeric price, a start cell that is no date.
SheetRows ==
  { <<T(1754870400), N(95)>>,
    <<T(1754874000), N(60)>>,
    <<T(1754868600), N(80)>>,
    <<T(1754870400), Null>>,
    <<T(1754870400), W("x")>>,
    <<W("x"), N(95)>> }

Sheets == {<<h>> \o rs : h \in SheetLabels, rs \in SeqsUpTo(SheetRows, MaxRows)}

InitSheet ==
  /\ variant = "lookahead"
  /\ env = [BYPASS_DEDUPE |-> FALSE, FORCE_LAST_ROW |-> FALSE, MAX_ROWS |-> MAX_ROWS,
           TIMEZONE |-> TIMEZONE]
  /\ \E f \in Sheets : portal = [listing |-> <<T_DMY>>, file |-> f, fileName |-> XlsxName]
  /\ pc = "start"
  /\ csv = <<>>
  /\ parsed = NoValue
  /\ payload = NoValue
  /\ draw = <<0, 0>>
  /\ sink = <<>>
  /\ exit = Running
  /\ runs = 1
  /\ pick = NoValue
  /\ dl = NoValue
  /\ scroll = NoValue

NextSheet ==
  \/ Download
  \/ AnalyseLookahead
  \/ Post
  \/ PostError

SpecSheet == InitSheet /\ [][NextSheet]_vars

\* C12: whatever the input shape, the series handed to the evaluator is
\* ascending by UTC instant.
C12_SeriesAscending ==
  (Analysed /\ variant = "lookahead" /\ parsed.tag = "ok") =>
    \A i, j \in 1..Len(parsed.val) :
      i < j => ParseISOFields(parsed.val[i].ts_utc) <= ParseISOFields(parsed.val[j].ts_utc)

-----------------------------------------------------------------------------
(* The row-count window of the first-48 version, with MAX_ROWS set low *)

CountArtifacts == {a \in Artifacts : a # <<>> /\ a[1] = <<W("date"), W("he"), W("forecast")>>}

InitCount ==
  /\ variant = "first48"
  /\ env \in [BYPASS_DEDUPE : {FALSE}, FORCE_LAST_ROW : {FALSE}, MAX_ROWS : 1..MaxRows,
              TIMEZONE : {TIMEZONE}]
  /\ \E f \in CountArtifacts : portal = [listing |-> <<T_DMY>>, file |-> f, fileName |-> FileName]
  /\ pc = "start"
  /\ csv = <<>>
  /\ parsed = NoValue
  /\ payload = NoValue
  /\ draw = <<0, 0>>
  /\ sink = <<>>
  /\ exit = Running
  /\ runs = 1
  /\ pick = NoValue
  /\ dl = NoValue
  /\ scroll = NoValue

NextCount ==
  \/ Download
  \/ AnalyseFirst48
  \/ Post

SpecCount == InitCount /\ [][NextCount]_vars

\* The data lines parseCsvFirst48 admits, of a date,he,forecast file.
Admitted48(line) == First48Row(line, 0, 1, 2, PRICE_THRESHOLD).tag # "skip"

\* C13: with the row-count window N = MAX_ROWS the considered rows are the
\* first N rows of the normalized series: as many as N, or all the admitted
\* rows when there are fewer, also when a skipped line precedes them.
C13_FirstNOfNormalized ==
  (/\ Analysed
   /\ variant = "first48"
   /\ Len(csv) >= 2
   /\ csv[1] = <<W("date"), W("he"), W("forecast")>>
   /\ parsed.tag = "ok") =>
    Len(parsed.val.list) = Min(env.MAX_ROWS, Len(SelectSeq(NonBlankLines(Tail(csv)), Admitted48)))

-----------------------------------------------------------------------------
(* Evaluation: the window and the alert set, on well-formed files whose     *)
(* instants lie before, at the ends of, inside and after the window        *)

EvalLines ==
  { <<D(2025, 8, 10), N(22), N(95)>>,
    <<D(2025, 8, 10), N(23), N(60)>>,
    <<D(2025, 8, 10), N(24), N(95)>>,
    <<D(2025, 8, 11), N(1), N(79)>>,
    <<D(2025, 8, 11), N(5), N(80)>>,
    <<D(2025, 8, 11), N(8), N(95)>> }

\* The lines under the header of the date/he parsers, and under the header
\* of the first-24 version (ts_utc, local, price).
EvalArtifacts ==
  {<<h>> \o ls : h \in { <<W("date"), W("he"), W("forecast")>>,
                         <<W("ts_utc"), W("local"), W("price")>> },
                 ls \in SeqsUpTo(EvalLines, MaxRows)}

InitEval == InitRun({"lookahead", "first48", "first24"}, {<<T_DMY>>}, EvalArtifacts)

NextEval ==
  \/ Download
  \/ AnalyseLookahead
  \/ AnalyseFirst48
  \/ AnalyseFirst24
  \/ Post
  \/ PostError

SpecEval == InitEval /\ [][NextEval]_vars

\* The time-lookahead version has built its result payload.
LookaheadResult == Analysed /\ variant = "lookahead" /\ payload.kind = "result"

\* The instant of a series row, in seconds.
InstantOf(r) == ParseISOFields(r.ts_utc)
InLookahead(r) == draw[1] <= InstantOf(r) /\ InstantOf(r) <= draw[1] + HOURS_LOOKAHEAD * 3600
Bare(rows) == [k \in 1..Len(rows) |-> <<rows[k].ts_utc, rows[k].price>>]

\* C14: a series row appears in raw_intervals if and only if
\* now <= instant <= now + H hours, both ends included, whatever its position
\* and however many rows the series has.
C14_LookaheadWindow ==
  LookaheadResult => Bare(payload.raw_intervals) = Bare(SelectSeq(parsed.val, InLookahead))

\* C14 witness: of two rows the one exactly at now + H hours is considered, the
\* one after it is not.
C14_Witness_EndIncluded ==
  /\ LookaheadResult
  /\ Len(parsed.val) = 2
  /\ Len(payload.raw_intervals) = 1
  /\ InstantOf(payload.raw_intervals[1]) = draw[1] + HOURS_LOOKAHEAD * 3600
  /\ InstantOf(parsed.val[2]) > draw[1] + HOURS_LOOKAHEAD * 3600

AtOrAbove(price) == price[1] = "n" /\ price[2] >= PRICE_THRESHOLD

\* C15: the alert set is exactly the considered rows whose price is greater
\* than or equal to the threshold, in series order, and the flagged count is
\* their number; a considered row priced at the threshold is in it.
C15_AlertSet ==
  /\ LookaheadResult =>
       payload.flagged = SelectSeq(payload.raw_intervals, LAMBDA r : AtOrAbove(r.price))
  /\ (Analysed /\ variant = "first48" /\ payload.kind = "result") =>
       /\ \A k \in 1..Len(payload.rows) :
            payload.rows[k].alert <=> AtOrAbove(payload.rows[k].forecast)
       /\ payload.flagged = Len(SelectSeq(payload.rows, LAMBDA r : AtOrAbove(r.forecast)))

\* C15 witness: a considered row priced exactly at the threshold is flagged.
C15_Witness_AtThreshold ==
  /\ LookaheadResult
  /\ Len(payload.flagged) = 1
  /\ payload.flagged[1].price = Num(PRICE_THRESHOLD)
  /\ Len(payload.raw_intervals) = 2

-----------------------------------------------------------------------------
(* The report texts, on files of up to First24 + MaxRows data lines *)

ReportLines ==
  { <<D(2025, 8, 10), N(1), N(60)>>,
    <<D(2025, 8, 11), N(2), N(95)>>,
    <<D(2025, 8, 10), N(3), N(80)>> }

\* Nothing, or First24 lines below the threshold, and then up to MaxRows lines.
ReportArtifacts ==
  { << <<W("date"), W("he"), W("forecast")>> >> \o base \o ls :
      base \in {<<>>, [k \in 1..First24 |-> <<D(2025, 8, 9), N(k), N(60)>>]},
      ls \in SeqsUpTo(ReportLines, MaxRows) }

InitReport == InitRun({"rowpick", "first48"}, {<<T_DMY>>}, ReportArtifacts)

NextReport ==
  \/ PickRow
  \/ Download
  \/ AnalyseRowpick
  \/ AnalyseFirst48
  \/ Post

SpecReport == InitReport /\ [][NextReport]_vars

\* The row lines of a report text that carry the alert marker.
MarkedLines(text) == SelectSeq(text, LAMBDA l : l[1] = "row" /\ l[4])
SummaryCount(text) == text[2][2]

\* C16: the alert count of the summary line equals the number of row lines
\* of the grouped report that carry the alert marker, and the number of
\* entries of the flat above-threshold list.
C16_ReportCountsAgree ==
  (Analysed /\ payload.kind = "result") =>
    IF variant = "rowpick"
    THEN /\ SummaryCount(payload.formatted_text) = Len(MarkedLines(payload.formatted_text))
         /\ SummaryCount(payload.formatted_text) = Len(payload.notes)
    ELSE variant = "first48" =>
           SummaryCount(payload.tg_text) = Len(MarkedLines(payload.tg_text))

-----------------------------------------------------------------------------
(* The ways a run ends: no listing row, a rejected download, a file that    *)
(* does not parse, a webhook that answers with a non-success status         *)

FailLines ==
  { <<D(2025, 8, 10), N(24), N(95)>>,
    <<W("x"), N(5), N(95)>> }

FailArtifacts ==
  {<<>>} \cup
  {<<h>> \o ls : h \in { <<W("date"), W("he"), W("forecast")>>,
                         <<W("date"), W("he"), W("node")>> },
                 ls \in SeqsUpTo(FailLines, MaxRows)}

InitFail == InitRun(RunVariants, {<<>>, <<T_DMY>>}, FailArtifacts)

NextFail ==
  \/ PickRow
  \/ Download
  \/ AnalyseLookahead
  \/ AnalyseFirst48
  \/ AnalyseFirst24
  \/ AnalyseRowpick
  \/ Post
  \/ PostError

SpecFail == InitFail /\ [][NextFail]_vars

\* The run is over and its row selection, its download or its parse failed.
Aborted ==
  /\ pc = "exited"
  /\ IF parsed = NoValue THEN TRUE
     ELSE IF parsed.tag = "throw" THEN TRUE
     ELSE IF variant = "first24" THEN parsed.val = <<>>
     ELSE variant = "first48" /\ parsed.val.list = <<>>

SentKind(kind) == \E i \in 1..Len(sink) : sink[i].payload.kind = kind

\* C17: a run of the look-ahead or of the first-24 version whose download or
\* parse failed has posted an error payload carrying the message, the stage
\* and the file name, and ends with status 1.
C17_ErrorPayloadSent ==
  (Aborted /\ variant \in {"lookahead", "first24"}) =>
    /\ exit = 1
    /\ \E i \in 1..Len(sink) :
         /\ sink[i].payload.kind = "error"
         /\ {"message", "stage"} \subseteq DOMAIN sink[i].payload.error
         /\ sink[i].payload.file_name = portal.fileName

\* C18: a run of the look-ahead, first-48 or row-picking version whose row
\* selection, download or parse failed has posted no result payload and
\* ends with status 1.
C18_AllOrNothing ==
  (Aborted /\ variant \in {"lookahead", "first48", "rowpick"}) =>
    /\ exit = 1
    /\ ~SentKind("result")

\* C18 witness: a look-ahead run whose parse threw has posted one payload,
\* the error payload, and ended with status 1.
C18_Witness_ParseThrew ==
  /\ Aborted
  /\ variant = "lookahead"
  /\ parsed # NoValue
  /\ Len(sink) = 1
  /\ exit = 1

\* C19: a run posts at most once, and a run whose POST was answered with a
\* non-success status ends with status 1.
C19_RejectionFailsRun ==
  /\ Len(sink) <= 1
  /\ (pc = "exited" /\ \E i \in 1..Len(sink) : ~sink[i].ok) => exit = 1

-----------------------------------------------------------------------------
(* The row count of a normalized spreadsheet, under SpecSheet *)

\* The data rows of the sheet read, and those whose price cell is empty or
\* holds no number.
SheetData == IF Len(csv) = 0 THEN <<>> ELSE Tail(csv)
NonNumericPrice(r) == IF r[2] = Null THEN TRUE ELSE IsNaN(Number(r[2]))

\* The first sheet has the labels Start and LMP ($/MWh) in any letter case,
\* at least one data row, and a date in every start cell.
StartLmpSheet ==
  /\ Analysed
  /\ ExtName(portal.fileName) = ".xlsx"
  /\ ToLowerCase(csv[1][1]) = W(LowerWord("Start"))
  /\ ToLowerCase(csv[1][2]) = W(LowerWord("LMP ($/MWh)"))
  /\ Len(SheetData) > 0
  /\ \A k \in 1..Len(SheetData) : SheetData[k][1][1] = "t"

\* C20: for such a sheet normalization succeeds, and the number of rows it
\* produces is the number of data rows minus the number of rows whose price
\* cell is empty or not numeric.
C20_SheetRowCount ==
  StartLmpSheet =>
    /\ parsed.tag = "ok"
    /\ Len(parsed.val) = Len(SheetData) - Len(SelectSeq(SheetData, NonNumericPrice))

\* A start cell that holds a date.
DateCell(r) == r[1] # Null /\ r[1][1] = "t"

\* C21: for a sheet with recognized labels whose price cells all hold
\* numbers, a data row whose start cell is empty or holds no date is left
\* out, normalization does not abort, and the other rows are produced.
C21_SheetRowTolerance ==
  ( /\ Analysed
    /\ ExtName(portal.fileName) = ".xlsx"
    /\ FindKey(csv[1], tsKeys) = 1
    /\ FindKey(csv[1], priceKeys) = 2
    /\ Len(SheetData) > 0
    /\ \A k \in 1..Len(SheetData) : ~NonNumericPrice(SheetData[k]) ) =>
    /\ parsed.tag = "ok"
    /\ Len(parsed.val) = Len(SelectSeq(SheetData, DateCell))

-----------------------------------------------------------------------------
(* Two invocations on the same file that differ in the TIMEZONE they read   *)

Timezones == {TIMEZONE, "UTC"}

InitZone ==
  /\ variant = "lookahead"
  /\ env \in [BYPASS_DEDUPE : {FALSE}, FORCE_LAST_ROW : {FALSE}, MAX_ROWS : {MAX_ROWS},
              TIMEZONE : Timezones]
  /\ \E f \in FailArtifacts : portal = [listing |-> <<T_DMY>>, file |-> f, fileName |-> FileName]
  /\ pc = "start"
  /\ csv = <<>>
  /\ parsed = NoValue
  /\ payload = NoValue
  /\ draw = <<0, 0>>
  /\ sink = <<>>
  /\ exit = Running
  /\ runs = 1
  /\ pick = NoValue
  /\ dl = NoValue
  /\ scroll = NoValue

\* The workflow starts the script again with another TIMEZONE in its
\* environment: a new process, the same portal.
ReinvokeZone ==
  /\ pc = "exited"
  /\ runs < MaxRuns
  /\ runs' = runs + 1
  /\ \E tz \in Timezones \ {env.TIMEZONE} : env' = [env EXCEPT !.TIMEZONE = tz]
  /\ pc' = "start"
  /\ exit' = Running
  /\ csv' = <<>>
  /\ parsed' = NoValue
  /\ payload' = NoValue
  /\ pick' = NoValue
  /\ draw' = <<0, 0>>
  /\ UNCHANGED <<variant, portal, sink, dl, scroll>>

NextZone ==
  \/ Download
  \/ AnalyseLookahead
  \/ Post
  \/ PostError
  \/ ReinvokeZone

SpecZone == InitZone /\ [][NextZone]_vars

\* Two POSTed results of runs that read the same clock.
SameClockResults(i, j) ==
  /\ i \in 1..Len(sink) /\ j \in 1..Len(sink)
  /\ sink[i].payload.kind = "result" /\ sink[j].payload.kind = "result"
  /\ sink[i].draw = sink[j].draw

\* C22: two results on the same bytes at the same evaluation time have the
\* same instants and prices in the considered rows and in the alert set, the
\* same counts, the same window and the same idempotency key, whatever the
\* timezone label of either run.
C22_TimezoneDisplayOnly ==
  \A i, j \in 1..Len(sink) :
    SameClockResults(i, j) =>
      LET p == sink[i].payload
          q == sink[j].payload
      IN /\ Bare(p.raw_intervals) = Bare(q.raw_intervals)
         /\ Bare(p.flagged) = Bare(q.flagged)
         /\ p.rows_evaluated = q.rows_evaluated
         /\ p.idempotency_key = q.idempotency_key
         /\ p.window_start_utc = q.window_start_utc
         /\ p.window_end_utc = q.window_end_utc

\* C22 witness: two such results with different timezone labels and a
\* flagged row each, whose local display strings differ.
C22_Witness_TwoZones ==
  \E i, j \in 1..Len(sink) :
    /\ SameClockResults(i, j)
    /\ sink[i].payload.timezone # sink[j].payload.timezone
    /\ Len(sink[i].payload.flagged) > 0
    /\ sink[i].payload.flagged[1].local # sink[j].payload.flagged[1].local

-----------------------------------------------------------------------------
(* Listings whose rows show no timestamp of a template, some of them with a *)
(* file name ending in a 14-digit date-time token (date part, time part)    *)

SuffixTexts ==
  { T_Plain,
    <<"file", 20250810, 90000>>,
    <<"file", 20250811, 0>>,
    <<"file", 20250810, 93000>> }

InitSuffix ==
  InitRun({"rowpick", "pickrow"}, SeqsUpTo(SuffixTexts, MaxListing),
          {<< <<W("date"), W("he"), W("forecast")>> >>})

SpecSuffix == InitSuffix /\ [][NextPick]_vars

HasSuffix(text) == text[1] = "file"
SuffixLeq(a, b) == a[2] < b[2] \/ (a[2] = b[2] /\ a[3] <= b[3])

\* C23: with timestamp parsing on, when no row text shows a timestamp of a
\* template and some row carries a numeric suffix, the selected row carries
\* the maximum suffix; when no row carries one either, it is the last row.
C23_FilenameSuffix ==
  ( /\ Selected /\ pick.tag = "ok" /\ ~env.FORCE_LAST_ROW
    /\ \A k \in 1..Len(portal.listing) : ParseAnyTimestamp(portal.listing[k]) = Null ) =>
    IF \E k \in 1..Len(portal.listing) : HasSuffix(portal.listing[k])
    THEN /\ HasSuffix(portal.listing[pick.index + 1])
         /\ \A k \in 1..Len(portal.listing) :
              HasSuffix(portal.listing[k]) =>
                SuffixLeq(portal.listing[k], portal.listing[pick.index + 1])
    ELSE pick.index = Len(portal.listing) - 1

-----------------------------------------------------------------------------
(* The header lookup of the three delimited parsers, under Spec *)

SchemaThrow ==
  /\ parsed.tag = "throw"
  /\ parsed.val[1] \in {"CSV schema not recognized. Headers:",
                        "CSV missing columns (need date, he, forecast). Got:",
                        "CSV header missing required columns. Got:"}

\* C24: a file with a data line whose header holds date, he and forecast, in
\* any letter case and quoted or not, is not rejected for its header by any
\* of the three delimited parsers.
C24_HeaderLookupUniform ==
  ( /\ Analysed
    /\ variant \in {"lookahead", "first48", "rowpick"}
    /\ Len(NonBlankLines(csv)) >= 2
    /\ {W("date"), W("he"), W("forecast")} \subseteq ColumnNames(csv[1]) ) =>
    ~SchemaThrow

-----------------------------------------------------------------------------
(* splitCsvLine on lines of up to MaxLen characters, and on the lines made  *)
(* by quoting up to MaxFields fields of up to MaxFields characters          *)

MaxLen == 4
MaxFields == 2

Chars == {"a", ",", "\""}

\* A field in double quotes, its quote characters doubled.
RECURSIVE DoubleQuotes(_)
DoubleQuotes(f) ==
  IF f = <<>> THEN <<>>
  ELSE (IF Head(f) = "\"" THEN <<"\"", "\"">> ELSE <<Head(f)>>) \o DoubleQuotes(Tail(f))

QuoteField(f) == <<"\"">> \o DoubleQuotes(f) \o <<"\"">>

RECURSIVE JoinQuoted(_)
JoinQuoted(fs) ==
  IF Len(fs) = 1 THEN QuoteField(fs[1])
  ELSE QuoteField(Head(fs)) \o <<",">> \o JoinQuoted(Tail(fs))

InitSplit ==
  /\ variant = "first48"
  /\ env = [BYPASS_DEDUPE |-> FALSE, FORCE_LAST_ROW |-> FALSE, MAX_ROWS |-> MAX_ROWS,
            TIMEZONE |-> TIMEZONE]
  /\ \/ /\ csv \in SeqsUpTo(Chars, MaxLen)
        /\ portal = [listing |-> <<>>, file |-> << <<>> >>, fileName |-> FileName]
     \/ /\ csv = <<>>
        /\ \E fs \in SeqsUpTo(SeqsUpTo(Chars, MaxFields), MaxFields) \ {<<>>} :
             portal = [listing |-> <<>>, file |-> fs, fileName |-> FileName]
  /\ pc = "start"
  /\ parsed = NoValue
  /\ payload = NoValue
  /\ draw = <<0, 0>>
  /\ sink = <<>>
  /\ exit = Running
  /\ runs = 1
  /\ pick = NoValue
  /\ dl = NoValue
  /\ scroll = NoValue

\* splitCsvLine applied to the line.
SplitLine ==
  /\ pc = "start"
  /\ parsed' = Ok(SplitCsvLineText(csv))
  /\ pc' = "split"
  /\ UNCHANGED <<variant, env, portal, csv, payload, draw, sink, exit, runs, pick, dl, scroll>>

\* The fields written as a line of quoted fields, and splitCsvLine applied to it.
QuoteAndSplit ==
  /\ pc = "start"
  /\ csv' = JoinQuoted(portal.file)
  /\ parsed' = Ok(SplitCsvLineText(csv'))
  /\ pc' = "requoted"
  /\ UNCHANGED <<variant, env, portal, payload, draw, sink, exit, runs, pick, dl, scroll>>

NextSplit ==
  \/ SplitLine
  \/ QuoteAndSplit

SpecSplit == InitSplit /\ [][NextSplit]_vars

\* The commas of a line outside quoted sections: those with an even number
\* of quote characters before them.
QuotesBefore(line, i) == Cardinality({j \in 1..(i - 1) : line[j] = "\""})
OutsideCommas(line) ==
  Cardinality({i \in 1..Len(line) : line[i] = "," /\ QuotesBefore(line, i) % 2 = 0})

\* C25: splitCsvLine returns one field more than the line has commas outside
\* quoted sections, and splitting the line made of quoted fields, their
\* quote characters doubled, gives the fields back.
C25_QuoteAwareSplit ==
  /\ pc = "split" => Len(parsed.val) = OutsideCommas(csv) + 1
  /\ pc = "requoted" =>
       /\ parsed.val = portal.file
       /\ Len(parsed.val) = OutsideCommas(csv) + 1

\* C25 witness: two fields given back, the first made of a comma and a quote
\* character.
C25_Witness_CommaAndQuote ==
  /\ pc = "requoted"
  /\ Len(portal.file) = 2
  /\ portal.file[1] = <<",", "\"">>
  /\ parsed.val = portal.file

-----------------------------------------------------------------------------
(* The flagged list against the considered rows, under SpecEval *)

\* a is b with some elements left out, the order kept.
RECURSIVE IsSubsequence(_, _)
IsSubsequence(a, b) ==
  IF a = <<>> THEN TRUE
  ELSE IF b = <<>> THEN FALSE
  ELSE IF Head(a) = Head(b) THEN IsSubsequence(Tail(a), Tail(b))
  ELSE IsSubsequence(a, Tail(b))

\* C26: in every result payload of the look-ahead and of the first-24
\* version, flagged is raw_intervals with some rows left out, the order
\* kept, each flagged entry equal to the considered row it came from.
C26_FlaggedWithinConsidered ==
  (Analysed /\ variant \in {"lookahead", "first24"} /\ payload.kind = "result") =>
    /\ IsSubsequence(payload.flagged, payload.raw_intervals)
    /\ Len(payload.flagged) <= Len(payload.raw_intervals)

\* C26 witness: a first-24 result with two considered rows, of which the
\* second only is flagged.
C26_Witness_SecondFlagged ==
  /\ Analysed /\ variant = "first24" /\ payload.kind = "result"
  /\ Len(payload.raw_intervals) = 2
  /\ payload.flagged = <<payload.raw_intervals[2]>>
  /\ payload.raw_intervals[1] # payload.raw_intervals[2]

-----------------------------------------------------------------------------
(* The result of row selection, under SpecPick *)

\* A selection of findTargetRowIndex or pickRowIndex on a listing with rows.
SelectedOfRows ==
  Selected /\ variant \in {"rowpick", "pickrow"} /\ Len(portal.listing) > 0

InRange == pick.tag = "ok" /\ pick.count = Len(portal.listing) /\ pick.index \in 0..(pick.count - 1)

\* Some row text matches a template; some row text denotes an instant at or
\* after 1970-01-01T00:00:00Z.
SomeMatch == \E k \in 1..Len(EpochsOf) : EpochsOf[k] # Null
SomeInstant == \E k \in 1..Len(EpochsOf) : IsNum(EpochsOf[k]) /\ EpochsOf[k][2] >= 0

-----------------------------------------------------------------------------
(* A parse that succeeds with no usable row, under SpecFail *)

NoUsableRows ==
  /\ parsed # NoValue
  /\ parsed.tag = "ok"
  /\ IF variant = "first48" THEN parsed.val.list = <<>> ELSE parsed.val = <<>>

\* C28 as stated: a run of the first-24, first-48 or look-ahead version
\* whose parse succeeded with no usable row ends with status 1 and has posted
\* no result payload.
C28_EmptyResultNotDelivered ==
  (pc = "exited" /\ variant \in {"first24", "first48", "lookahead"} /\ NoUsableRows) =>
    /\ exit = 1
    /\ ~SentKind("result")

\* C28 amended: such a run of the first-24 or first-48 version ends with
\* status 1 and has posted no result payload; such a run of the look-ahead
\* version has posted one result payload, with rows_evaluated 0 and empty
\* lists, and ends with status 0.
C28_EmptyResultByVersion ==
  (pc = "exited" /\ variant \in {"first24", "first48", "lookahead"} /\ NoUsableRows) =>
    IF variant = "lookahead"
    THEN /\ exit = 0
         /\ Len(sink) = 1
         /\ sink[1].payload.kind = "result"
         /\ sink[1].payload.rows_evaluated = 0
         /\ sink[1].payload.flagged = <<>>
         /\ sink[1].payload.raw_intervals = <<>>
    ELSE /\ exit = 1
         /\ ~SentKind("result")

\* C28 witness: a first-24 run on a file with a header and a data line, none
\* of whose rows is usable, has ended with status 1 and posted nothing.
C28_Witness_UnusableLine ==
  /\ pc = "exited" /\ variant = "first24" /\ NoUsableRows
  /\ Len(csv) = 2
  /\ exit = 1
  /\ sink = <<>>

-----------------------------------------------------------------------------
(* downloadForecast where the page has no file link, src/scrape.js 574-692: *)
(* the response handler and the click loop.  The handler runs while the    *)
(* function waits: for the elements of a selector, for a click to settle,  *)
(* for the two seconds after it, for the screenshot.                       *)

ClickSelectors == 9
MaxClicks == 3
MaxScrolls == 30
MaxEls == 2
MaxCount == 2

\* The end of the loop body of a selector: `if (sniffedPath) break;` and the
\* next selector; sniffedAtEnd records sniffedPath when the loop is left.
AfterSelector(d) ==
  IF d.sniffedPath \/ d.sel = ClickSelectors
  THEN [d EXCEPT !.pc = "final", !.sniffedAtEnd = d.sniffedPath]
  ELSE [d EXCEPT !.pc = "query", !.sel = d.sel + 1]

\* The next element of the selector, or the end of its loop body.
NextTry(d) ==
  IF d.i + 1 < Min(MaxClicks, d.n) THEN [d EXCEPT !.pc = "click", !.i = d.i + 1]
  ELSE AfterSelector(d)

\* The start of a page session: downloadForecast before its first selector,
\* with or without a file response already on its way; scrollUntilStable
\* after its first count.
InitPage ==
  /\ variant = "lookahead"
  /\ env = [BYPASS_DEDUPE |-> FALSE, FORCE_LAST_ROW |-> FALSE, MAX_ROWS |-> MAX_ROWS,
            TIMEZONE |-> TIMEZONE]
  /\ portal = [listing |-> <<>>, file |-> <<>>, fileName |-> FileName]
  /\ pc = "start"
  /\ csv = <<>>
  /\ parsed = NoValue
  /\ payload = NoValue
  /\ draw = <<0, 0>>
  /\ sink = <<>>
  /\ exit = Running
  /\ runs = 1
  /\ pick = NoValue
  /\ \E pending \in BOOLEAN :
       dl = [pc |-> "query", sel |-> 1, i |-> 0, n |-> 0, sniffedPath |-> FALSE,
             pending |-> pending, sniffedAtEnd |-> FALSE, result |-> "none"]
  /\ \E prev \in 0..MaxCount :
       scroll = [pc |-> "loop", i |-> 0, prev |-> prev, iters |-> 0, equalSeen |-> FALSE]

\* page.$$(sel) resolves with n elements, line 656.
Query ==
  /\ dl.pc = "query"
  /\ \E n \in 0..MaxEls :
       dl' = IF Min(MaxClicks, n) > 0
             THEN [dl EXCEPT !.pc = "click", !.n = n, !.i = 0]
             ELSE AfterSelector([dl EXCEPT !.n = n, !.i = 0])
  /\ UNCHANGED <<variant, env, portal, pc, csv, parsed, payload, draw, sink, exit, runs, pick,
                 scroll>>

\* Promise.allSettled of the download event and the click resolves, lines
\* 659-670: a native download is saved and returned, or saving it throws and
\* the next element is tried, or no download fired; the click may have made
\* the page request a file.
Click ==
  /\ dl.pc = "click"
  /\ \E outcome \in {"native", "error", "none"}, file \in BOOLEAN :
       LET d == [dl EXCEPT !.pending = dl.pending \/ file]
       IN dl' = CASE outcome = "native" -> [d EXCEPT !.pc = "returned", !.result = "native"]
                  [] outcome = "error" -> NextTry(d)
                  [] OTHER -> [d EXCEPT !.pc = "wait"]
  /\ UNCHANGED <<variant, env, portal, pc, csv, parsed, payload, draw, sink, exit, runs, pick,
                 scroll>>

\* page.waitForTimeout(2000) resolves, lines 673-677.
Wait ==
  /\ dl.pc = "wait"
  /\ dl' = IF dl.sniffedPath THEN [dl EXCEPT !.pc = "returned", !.result = "sniffed"]
           ELSE NextTry(dl)
  /\ UNCHANGED <<variant, env, portal, pc, csv, parsed, payload, draw, sink, exit, runs, pick,
                 scroll>>

\* The screenshot, browser.close() and the throw, lines 684-691.
Final ==
  /\ dl.pc = "final"
  /\ dl' = [dl EXCEPT !.pc = "threw", !.result = "threw"]
  /\ UNCHANGED <<variant, env, portal, pc, csv, parsed, payload, draw, sink, exit, runs, pick,
                 scroll>>

\* The response handler of lines 577-598 gets the body of a file response
\* and sets sniffedPath, while the function waits.
Sniff ==
  /\ dl.pending
  /\ dl.pc \in {"query", "click", "wait", "final"}
  /\ dl' = [dl EXCEPT !.sniffedPath = TRUE, !.pending = FALSE]
  /\ UNCHANGED <<variant, env, portal, pc, csv, parsed, payload, draw, sink, exit, runs, pick,
                 scroll>>

NextDl ==
  \/ Query
  \/ Click
  \/ Wait
  \/ Final
  \/ Sniff

SpecDl == InitPage /\ [][NextDl]_vars

\* C29: when sniffedPath was set before the click loop was left,
\* downloadForecast does not throw the 'no file' error: it returns.
C29_SniffedFileNotLost ==
  dl.pc = "threw" => ~dl.sniffedAtEnd

-----------------------------------------------------------------------------
(* scrollUntilStable, src/scrape.js 264-274: one step is a scroll, the wait *)
(* and the recount, for row counts 0..MaxCount in any order                *)

\* The loop body and the loop test with every recount taken as a change.
ScrollNext_NoBreak(s, now) ==
  [pc |-> IF s.i + 1 < MaxScrolls THEN "loop" ELSE "done", i |-> s.i + 1, prev |-> now]

\* The loop body of lines 267-272 on the count now, then i++ and the test
\* i < 30.
ScrollNext(s, now) ==
  IF now = s.prev THEN [pc |-> "done", i |-> s.i, prev |-> s.prev]
  ELSE [pc |-> IF s.i + 1 < MaxScrolls THEN "loop" ELSE "done", i |-> s.i + 1, prev |-> now]

\* One iteration; iters counts the iterations made, equalSeen records that
\* some recount gave the count of the iteration before.
Recount ==
  /\ scroll.pc = "loop"
  /\ \E now \in 0..MaxCount :
       LET nx == ScrollNext([pc |-> scroll.pc, i |-> scroll.i, prev |-> scroll.prev], now)
       IN scroll' = [pc |-> nx.pc, i |-> nx.i, prev |-> nx.prev,
                     iters |-> scroll.iters + 1,
                     equalSeen |-> scroll.equalSeen \/ now = scroll.prev]
  /\ UNCHANGED <<variant, env, portal, pc, csv, parsed, payload, draw, sink, exit, runs, pick,
                 dl>>

SpecScroll == InitPage /\ [][Recount]_vars

\* C30: scrollUntilStable makes at most 30 iterations, stops at the first
\* iteration whose count equals that of the iteration before, and does not
\* stop earlier than that unless 30 iterations are made.
C30_ScrollTerminates ==
  /\ scroll.iters <= MaxScrolls
  /\ scroll.equalSeen => scroll.pc = "done"
  /\ scroll.pc = "done" => (scroll.equalSeen \/ scroll.iters = MaxScrolls)

\* C30 witness: the loop has ended after 30 iterations that all saw a change.
C30_Witness_ThirtyChanges ==
  /\ scroll.pc = "done"
  /\ scroll.iters = MaxScrolls
  /\ ~scroll.equalSeen

====
